---- MODULE Spec2Model ----
(***************************************************************************)
(* Model of the policy-enforcing Executor (core/cg/safety/executor.py),    *)
(* the Policy accessors it reads (core/cg/safety/policy.py) and the        *)
(* plan-execution loops that feed plan steps to it (core/cg/main.py,       *)
(* core/cg/runtime_run.py, core/cg/runtime/run_engine.py).                 *)
(*                                                                         *)
(* Text is modelled at character level with TLA+ strings; paths are        *)
(* sequences of components obtained by splitting path strings on "/".      *)
(* The filesystem has no symbolic links and the platform is POSIX, so      *)
(* Path.resolve() only makes a path absolute and folds "." and "..", and   *)
(* write_text() stores exactly the UTF-8 encoding of its argument.         *)
(***************************************************************************)
EXTENDS Integers, Sequences, FiniteSets, TLC

VARIABLES
    policy,     \* the loaded Policy snapshot (immutable after Init)
    dirs,       \* filesystem: set of existing directories (component sequences)
    files,      \* filesystem: function from existing regular files to their bytes
    spawned,    \* number of child processes spawned by Executor.run so far
    last,       \* outcome of the last Executor call (or of the last plan step)
    ops,        \* number of direct Executor calls made so far
    run         \* state of one run_once invocation (plan-execution loop)

vars == <<policy, dirs, files, spawned, last, ops, run>>

(***************************************************************************)
(* Bounds of the model.                                                    *)
(***************************************************************************)
MaxOps == 1
MaxContentLen == 2
MaxCmdWords == 2
MaxPlanLen == 3

(***************************************************************************)
(* Generic helpers on strings and sequences.                               *)
(***************************************************************************)
Char(s, i) == SubSeq(s, i, i)

StartsWith(s, pre) == Len(s) >= Len(pre) /\ SubSeq(s, 1, Len(pre)) = pre

IsPrefix(r, p) == Len(r) <= Len(p) /\ SubSeq(p, 1, Len(r)) = r

Min(a, b) == IF a < b THEN a ELSE b

Max(a, b) == IF a > b THEN a ELSE b

Whitespace == {" ", "\t", "\r", "\n"}

RECURSIVE LStrip(_)
LStrip(s) == IF s # "" /\ Char(s, 1) \in Whitespace THEN LStrip(Tail(s)) ELSE s

RECURSIVE RStrip(_)
RStrip(s) ==
    IF s # "" /\ Char(s, Len(s)) \in Whitespace
    THEN RStrip(SubSeq(s, 1, Len(s) - 1))
    ELSE s

\* str.strip()
strip(s) == RStrip(LStrip(s))

\* Python slice seq[:n], for any integer n (a negative n counts from the end).
PySliceTo(seq, n) ==
    IF n >= 0 THEN SubSeq(seq, 1, Min(n, Len(seq)))
    ELSE SubSeq(seq, 1, Max(0, Len(seq) + n))

RECURSIVE SeqsUpTo(_, _)
SeqsUpTo(S, n) ==
    IF n = 0 THEN {<<>>}
    ELSE LET R == SeqsUpTo(S, n - 1)
         IN  R \cup {Append(r, x) : r \in R, x \in S}

RECURSIVE ConcatsUpTo(_, _)
ConcatsUpTo(W, n) ==
    IF n = 0 THEN {""}
    ELSE LET R == ConcatsUpTo(W, n - 1)
         IN  R \cup {r \o w : r \in R, w \in W}

(***************************************************************************)
(* Paths: pathlib.Path on a POSIX filesystem without symbolic links.       *)
(***************************************************************************)
Root == <<>>

\* Path(s).parts without the root: split on "/", dropping "" and ".".
RECURSIVE SplitPath(_, _, _, _)
SplitPath(s, i, cur, acc) ==
    LET flush == IF cur = "" \/ cur = "." THEN acc ELSE Append(acc, cur)
    IN  IF i > Len(s) THEN flush
        ELSE IF Char(s, i) = "/" THEN SplitPath(s, i + 1, "", flush)
        ELSE SplitPath(s, i + 1, cur \o Char(s, i), acc)

PathParts(s) == SplitPath(s, 1, "", <<>>)

IsAbsolute(s) == StartsWith(s, "/")

\* Path.resolve() on an absolute component sequence: fold "..".
RECURSIVE Resolve(_)
Resolve(parts) ==
    IF parts = <<>> THEN <<>>
    ELSE LET init == Resolve(SubSeq(parts, 1, Len(parts) - 1))
             c == parts[Len(parts)]
         IN  IF c = ".."
             THEN (IF init = <<>> THEN <<>> ELSE SubSeq(init, 1, Len(init) - 1))
             ELSE Append(init, c)

\* (base / p).resolve(): an absolute p replaces base.
JoinResolve(base, p) ==
    IF IsAbsolute(p) THEN Resolve(PathParts(p)) ELSE Resolve(base \o PathParts(p))

\* Path(d).expanduser().resolve() of a configured (already absolute) path.
ResolveConfigured(d) == Resolve(PathParts(d))

\* Path.is_relative_to(root)
IsRelativeTo(p, r) == IsPrefix(r, p)

\* The workspace root handed to the Executor (Executor.__init__ resolves it).
Workspace == <<"w">>

(***************************************************************************)
(* Policy accessors (core/cg/safety/policy.py).  A policy is a record of   *)
(* the loaded fields; path lists hold absolute path strings.               *)
(***************************************************************************)
\* self.execution_limits.get(key, default).  The limits are configured as
\* integers, so int() of them is the identity; execution_mode is held as str()
\* renders the configured value.
LimitGet(pol, key, default) ==
    IF key \in DOMAIN pol.execution_limits THEN pol.execution_limits[key] ELSE default

max_runtime_seconds(pol) == LimitGet(pol, "max_runtime_seconds", 60)

max_file_write_bytes(pol) == LimitGet(pol, "max_file_write_bytes", 750000)

execution_mode(pol) ==
    LET mode == strip(LimitGet(pol, "execution_mode", "single_step"))
    IN  IF mode \in {"single_step", "continue_until_done"} THEN mode ELSE "single_step"

max_actions_per_run(pol) == LimitGet(pol, "max_actions_per_run", 1)

max_steps_per_plan(pol) == LimitGet(pol, "max_steps_per_plan", 5)

destructive_deny_patterns(pol) == pol.deny_patterns

\* A configuration section without keys (a Python dict {}).
EmptyDict == [k \in {} |-> FALSE]

\* Policy.load: dict(data.get(key) or {}) for a section of the document.
LoadSection(data, key) == IF key \in DOMAIN data THEN data[key] ELSE EmptyDict

\* An accessor that allows outbound HTTP when the key is absent.
AllowHttpByDefault(pol) ==
    IF "allow_outbound_http" \in DOMAIN pol.network_controls
    THEN pol.network_controls["allow_outbound_http"] ELSE TRUE

\* bool(self.network_controls.get("allow_outbound_http", False))
allow_outbound_http(pol) ==
    IF "allow_outbound_http" \in DOMAIN pol.network_controls
    THEN pol.network_controls["allow_outbound_http"] ELSE FALSE

\* list(self.network_controls.get("allow_domains") or [])
allow_domains(pol) ==
    IF "allow_domains" \in DOMAIN pol.network_controls
    THEN pol.network_controls["allow_domains"] ELSE {}

(***************************************************************************)
(* str.encode("utf-8"): text is a sequence of code points.                 *)
(***************************************************************************)
IsSurrogate(cp) == cp >= 55296 /\ cp <= 57343

Utf8Char(cp) ==
    IF cp < 128 THEN <<cp>>
    ELSE IF cp < 2048 THEN <<192 + (cp \div 64), 128 + (cp % 64)>>
    ELSE IF cp < 65536
         THEN <<224 + (cp \div 4096), 128 + ((cp \div 64) % 64), 128 + (cp % 64)>>
    ELSE <<240 + (cp \div 262144), 128 + ((cp \div 4096) % 64),
           128 + ((cp \div 64) % 64), 128 + (cp % 64)>>

RECURSIVE Utf8(_)
Utf8(content) ==
    IF content = <<>> THEN <<>> ELSE Utf8Char(Head(content)) \o Utf8(Tail(content))

\* A lone surrogate makes encode() raise UnicodeEncodeError.
Encodable(content) == \A i \in 1..Len(content) : ~IsSurrogate(content[i])

(***************************************************************************)
(* Executor path predicates.                                               *)
(***************************************************************************)
_is_denied_path(pol, p) ==
    \E d \in pol.denied_paths : IsRelativeTo(p, ResolveConfigured(d))

_is_allowed_write(pol, p) ==
    \E r \in pol.allowed_write_roots : IsRelativeTo(p, ResolveConfigured(r))

_is_allowed_read(pol, p) ==
    IF pol.allowed_read_roots = {} THEN TRUE
    ELSE \E r \in pol.allowed_read_roots : IsRelativeTo(p, ResolveConfigured(r))

\* A size check that counts characters instead of encoded bytes.
SizeLimitCountsChars(pol, content) ==
    IF Len(content) > max_file_write_bytes(pol)
    THEN "execution_limits.max_file_write_bytes" ELSE ""

\* The rule raised by _enforce_write_size_limit, "" when it returns normally.
_enforce_write_size_limit(pol, content) ==
    IF Len(Utf8(content)) > max_file_write_bytes(pol)
    THEN "execution_limits.max_file_write_bytes" ELSE ""

(***************************************************************************)
(* Filesystem effects of write_file.                                       *)
(***************************************************************************)
Prefixes(p) == {SubSeq(p, 1, k) : k \in 0..Len(p)}

Parent(p) == IF p = <<>> THEN <<>> ELSE SubSeq(p, 1, Len(p) - 1)

\* Path.mkdir(parents=True, exist_ok=True): fails, creating nothing, when the
\* directory or one of its ancestors is a regular file.
MkdirBlocked(fl, d) == \E q \in Prefixes(d) : q \in DOMAIN fl

MkdirParents(ds, d) == ds \cup Prefixes(d)

WriteBytes(fl, t, bytes) ==
    [q \in (DOMAIN fl) \cup {t} |-> IF q = t THEN bytes ELSE fl[q]]

\* Outcomes of an Executor call: kind is "ok" (write done, or command exited 0),
\* "nonok" (ExecResult with ok = False), "violation" (PolicyViolation raised,
\* with its rule) or "error" (another exception raised, with its class name);
\* dirs and files are the filesystem after the call, spawned the number of child
\* processes the call started.
Violation(rule, ds, fl, sp) ==
    [kind |-> "violation", rule |-> rule, error |-> "", dirs |-> ds, files |-> fl,
     spawned |-> sp, exit_code |-> 0, target |-> <<>>]

OsError(name, ds, fl, sp) ==
    [kind |-> "error", rule |-> "", error |-> name, dirs |-> ds, files |-> fl,
     spawned |-> sp, exit_code |-> 0, target |-> <<>>]

\* write_file creating the parent directories before the size check.
WriteFileMkdirFirst(pol, ds, fl, rel_path, content) ==
    LET target == JoinResolve(Workspace, rel_path)
        made == IF MkdirBlocked(fl, Parent(target)) THEN ds
                ELSE MkdirParents(ds, Parent(target))
    IN  IF _is_denied_path(pol, target)
        THEN Violation("denied_paths", ds, fl, 0)
        ELSE IF ~_is_allowed_write(pol, target)
        THEN Violation("allowed_write_roots", ds, fl, 0)
        ELSE IF ~Encodable(content)
        THEN OsError("UnicodeEncodeError", made, fl, 0)
        ELSE IF _enforce_write_size_limit(pol, content) # ""
        THEN Violation(_enforce_write_size_limit(pol, content), made, fl, 0)
        ELSE IF MkdirBlocked(fl, Parent(target))
        THEN OsError("NotADirectoryError", ds, fl, 0)
        ELSE IF target \in made
        THEN OsError("IsADirectoryError", made, fl, 0)
        ELSE [kind |-> "ok", rule |-> "", error |-> "", dirs |-> made,
              files |-> WriteBytes(fl, target, Utf8(content)), spawned |-> 0,
              exit_code |-> 0, target |-> target]

\* write_file skipping the denied_paths check for targets under an allowed root.
WriteFileAllowWins(pol, ds, fl, rel_path, content) ==
    LET target == JoinResolve(Workspace, rel_path)
    IN  IF ~_is_allowed_write(pol, target) /\ _is_denied_path(pol, target)
        THEN Violation("denied_paths", ds, fl, 0)
        ELSE IF ~_is_allowed_write(pol, target)
        THEN Violation("allowed_write_roots", ds, fl, 0)
        ELSE IF ~Encodable(content)
        THEN OsError("UnicodeEncodeError", ds, fl, 0)
        ELSE IF _enforce_write_size_limit(pol, content) # ""
        THEN Violation(_enforce_write_size_limit(pol, content), ds, fl, 0)
        ELSE IF MkdirBlocked(fl, Parent(target))
        THEN OsError("NotADirectoryError", ds, fl, 0)
        ELSE IF target \in MkdirParents(ds, Parent(target))
        THEN OsError("IsADirectoryError", MkdirParents(ds, Parent(target)), fl, 0)
        ELSE [kind |-> "ok", rule |-> "", error |-> "",
              dirs |-> MkdirParents(ds, Parent(target)),
              files |-> WriteBytes(fl, target, Utf8(content)), spawned |-> 0,
              exit_code |-> 0, target |-> target]

\* Executor.write_file: the outcome and the filesystem it leaves behind.
write_file(pol, ds, fl, rel_path, content) ==
    LET target == JoinResolve(Workspace, rel_path)
    IN  IF _is_denied_path(pol, target)
        THEN Violation("denied_paths", ds, fl, 0)
        ELSE IF ~_is_allowed_write(pol, target)
        THEN Violation("allowed_write_roots", ds, fl, 0)
        ELSE IF ~Encodable(content)
        THEN OsError("UnicodeEncodeError", ds, fl, 0)
        ELSE IF _enforce_write_size_limit(pol, content) # ""
        THEN Violation(_enforce_write_size_limit(pol, content), ds, fl, 0)
        ELSE IF MkdirBlocked(fl, Parent(target))
        THEN OsError("NotADirectoryError", ds, fl, 0)
        ELSE IF target \in MkdirParents(ds, Parent(target))
        THEN OsError("IsADirectoryError", MkdirParents(ds, Parent(target)), fl, 0)
        ELSE [kind |-> "ok", rule |-> "", error |-> "",
              dirs |-> MkdirParents(ds, Parent(target)),
              files |-> WriteBytes(fl, target, Utf8(content)), spawned |-> 0,
              exit_code |-> 0, target |-> target]

(***************************************************************************)
(* shlex.split(command): POSIX mode, whitespace_split, no comments.        *)
(* st is the lexer state: "ws" (between tokens), "word", "sq" (inside      *)
(* '...'), "dq" (inside "...") or "esc" (after a backslash; esc tells the  *)
(* state to return to).  The result is [ok, parts]; ok = FALSE stands for  *)
(* the ValueError of an unclosed quotation or a dangling backslash.        *)
(***************************************************************************)
LexState(mode, esc, tok, quoted, acc) ==
    [mode |-> mode, esc |-> esc, tok |-> tok, quoted |-> quoted, acc |-> acc]

\* The token under construction is emitted when it is non-empty or was quoted.
LexEmit(st) == IF st.tok # "" \/ st.quoted THEN Append(st.acc, st.tok) ELSE st.acc

\* One character read by shlex.read_token.
LexStep(st, c) ==
    CASE st.mode = "ws" /\ c \in Whitespace ->
            LexState("ws", st.esc, "", FALSE, st.acc)
      [] st.mode = "word" /\ c \in Whitespace ->
            LexState("ws", st.esc, "", FALSE, LexEmit(st))
      [] st.mode \in {"ws", "word"} /\ c = "\\" ->
            LexState("esc", "word", st.tok, st.quoted, st.acc)
      [] st.mode \in {"ws", "word"} /\ c = "'" ->
            LexState("sq", st.esc, st.tok, st.quoted, st.acc)
      [] st.mode \in {"ws", "word"} /\ c = "\"" ->
            LexState("dq", st.esc, st.tok, st.quoted, st.acc)
      [] st.mode \in {"ws", "word"} /\ c \notin (Whitespace \cup {"\\", "'", "\""}) ->
            LexState("word", st.esc, st.tok \o c, st.quoted, st.acc)
      [] st.mode = "sq" /\ c = "'" ->
            LexState("word", st.esc, st.tok, TRUE, st.acc)
      [] st.mode = "sq" /\ c # "'" ->
            LexState("sq", st.esc, st.tok \o c, TRUE, st.acc)
      [] st.mode = "dq" /\ c = "\"" ->
            LexState("word", st.esc, st.tok, TRUE, st.acc)
      [] st.mode = "dq" /\ c = "\\" ->
            LexState("esc", "dq", st.tok, TRUE, st.acc)
      [] st.mode = "dq" /\ c \notin {"\"", "\\"} ->
            LexState("dq", st.esc, st.tok \o c, TRUE, st.acc)
      [] st.mode = "esc" /\ st.esc = "dq" /\ c \notin {"\\", "\""} ->
            LexState("dq", st.esc, (st.tok \o "\\") \o c, st.quoted, st.acc)
      [] st.mode = "esc" /\ ~(st.esc = "dq" /\ c \notin {"\\", "\""}) ->
            LexState(st.esc, st.esc, st.tok \o c, st.quoted, st.acc)

RECURSIVE Lex(_, _)
Lex(s, n) == IF n = 0 THEN LexState("ws", "word", "", FALSE, <<>>)
             ELSE LexStep(Lex(s, n - 1), Char(s, n))

shlex_split(command) ==
    LET st == Lex(command, Len(command))
    IN  IF st.mode \in {"sq", "dq", "esc"} THEN [ok |-> FALSE, parts |-> <<>>]
        ELSE [ok |-> TRUE, parts |-> LexEmit(st)]

\* " ".join(text.strip().split()): whitespace runs collapse to one blank.
RECURSIVE NormWs(_, _, _, _)
NormWs(s, i, cur, out) ==
    LET flush == IF cur = "" THEN out
                 ELSE IF out = "" THEN cur ELSE (out \o " ") \o cur
    IN  IF i > Len(s) THEN flush
        ELSE IF Char(s, i) \in Whitespace THEN NormWs(s, i + 1, "", flush)
        ELSE NormWs(s, i + 1, cur \o Char(s, i), out)

NormalizeWs(s) == NormWs(s, 1, "", "")

(***************************************************************************)
(* urlparse(u).hostname for an http(s) URL without an IPv6 literal: the    *)
(* netloc runs from "//" to the first "/", "?" or "#"; user info up to the *)
(* last "@" and the port after the first ":" are dropped; lower-cased.     *)
(***************************************************************************)
UpperChars == "ABCDEFGHIJKLMNOPQRSTUVWXYZ"

LowerChars == "abcdefghijklmnopqrstuvwxyz"

LowerChar(c) ==
    IF \E i \in 1..Len(UpperChars) : Char(UpperChars, i) = c
    THEN Char(LowerChars, CHOOSE i \in 1..Len(UpperChars) : Char(UpperChars, i) = c)
    ELSE c

RECURSIVE Lower(_)
Lower(s) == IF s = "" THEN "" ELSE LowerChar(Head(s)) \o Lower(Tail(s))

\* Index of the first character of s, from position i on, that is in stops
\* (Len(s) + 1 when there is none).
RECURSIVE FindFirst(_, _, _)
FindFirst(s, i, stops) ==
    IF i > Len(s) THEN Len(s) + 1
    ELSE IF Char(s, i) \in stops THEN i
    ELSE FindFirst(s, i + 1, stops)

\* Index of the last occurrence of character c in s (0 when there is none).
RECURSIVE FindLast(_, _, _)
FindLast(s, i, c) ==
    IF i < 1 THEN 0
    ELSE IF Char(s, i) = c THEN i
    ELSE FindLast(s, i - 1, c)

UrlNetloc(u) ==
    LET start == FindFirst(u, 1, {":"}) + 3
    IN  SubSeq(u, start, FindFirst(u, start, {"/", "?", "#"}) - 1)

UrlHostname(u) ==
    LET netloc == UrlNetloc(u)
        hostinfo == SubSeq(netloc, FindLast(netloc, Len(netloc), "@") + 1, Len(netloc))
    IN  Lower(SubSeq(hostinfo, 1, FindFirst(hostinfo, 1, {":"}) - 1))

(***************************************************************************)
(* The command checks of Executor.run.  Each returns the rule of the       *)
(* PolicyViolation it raises, or "" when it returns normally.              *)
(***************************************************************************)
_enforce_destructive_patterns(pol, command) ==
    IF \E pat \in destructive_deny_patterns(pol) :
           NormalizeWs(command) = NormalizeWs(pat)
    THEN "destructive_command_controls.deny_patterns" ELSE ""

_resolve_cli_path(path_arg, cwd) == JoinResolve(cwd, path_arg)

RecursiveFlags == {"-r", "-rf", "-fr", "--recursive"}

\* An rm check satisfied by a single target under an allowed root.
RmRulesOneTargetSuffices(pol, parts, cwd) ==
    IF parts = <<>> \/ parts[1] # "rm" THEN ""
    ELSE LET has_recursive == \E i \in 1..Len(parts) : parts[i] \in RecursiveFlags
             roots == {ResolveConfigured(r) : r \in pol.rm_allow_recursive_only_under}
             targets == {_resolve_cli_path(parts[i], cwd) :
                            i \in {j \in 2..Len(parts) : ~StartsWith(parts[j], "-")}}
         IN  IF has_recursive /\ pol.rm_deny_recursive
             THEN "destructive_command_controls.rm_rules.deny_recursive"
             ELSE IF /\ has_recursive
                     /\ roots # {}
                     /\ \A t \in targets : \A r \in roots : ~IsRelativeTo(t, r)
             THEN "destructive_command_controls.rm_rules.allow_recursive_only_under"
             ELSE ""

_enforce_rm_rules(pol, parts, cwd) ==
    IF parts = <<>> \/ parts[1] # "rm" THEN ""
    ELSE LET has_recursive == \E i \in 1..Len(parts) : parts[i] \in RecursiveFlags
             roots == {ResolveConfigured(r) : r \in pol.rm_allow_recursive_only_under}
             targets == {_resolve_cli_path(parts[i], cwd) :
                            i \in {j \in 2..Len(parts) : ~StartsWith(parts[j], "-")}}
         IN  IF has_recursive /\ pol.rm_deny_recursive
             THEN "destructive_command_controls.rm_rules.deny_recursive"
             ELSE IF /\ has_recursive
                     /\ roots # {}
                     /\ \E t \in targets : \A r \in roots : ~IsRelativeTo(t, r)
             THEN "destructive_command_controls.rm_rules.allow_recursive_only_under"
             ELSE ""

_enforce_git_controls(pol, parts) ==
    IF parts = <<>> \/ parts[1] # "git" THEN ""
    ELSE LET subcmd == IF Len(parts) > 1 THEN parts[2] ELSE ""
         IN  IF pol.git_deny_push /\ subcmd = "push"
             THEN "git_controls.deny_push"
             ELSE IF /\ pol.git_deny_remote_add
                     /\ subcmd = "remote"
                     /\ Len(parts) > 2
                     /\ parts[3] = "add"
             THEN "git_controls.deny_remote_add"
             ELSE IF /\ pol.git_deny_force
                     /\ \E i \in 2..Len(parts) :
                            parts[i] = "--force" \/ StartsWith(parts[i], "-f")
             THEN "git_controls.deny_force"
             ELSE ""

_enforce_network_controls(pol, parts) ==
    IF parts = <<>> \/ parts[1] \notin {"curl", "wget"} THEN ""
    ELSE IF ~allow_outbound_http(pol) THEN "network_controls.allow_outbound_http"
    ELSE IF allow_domains(pol) = {} THEN ""
    ELSE IF \E i \in 2..Len(parts) :
                /\ StartsWith(parts[i], "http://") \/ StartsWith(parts[i], "https://")
                /\ UrlHostname(parts[i]) \notin allow_domains(pol)
    THEN "network_controls.allow_domains"
    ELSE ""

RECURSIVE LastRule(_)
LastRule(rules) ==
    IF rules = <<>> THEN ""
    ELSE IF rules[Len(rules)] # "" THEN rules[Len(rules)]
    ELSE LastRule(SubSeq(rules, 1, Len(rules) - 1))

\* The first non-empty rule of a sequence of check results ("" when all pass).
RECURSIVE FirstRule(_)
FirstRule(rules) ==
    IF rules = <<>> THEN ""
    ELSE IF Head(rules) # "" THEN Head(rules)
    ELSE FirstRule(Tail(rules))

(***************************************************************************)
(* Executor.run.  cwd = "" stands for cwd=None.  env is what the host does *)
(* with the child process: [kind |-> "exit", code |-> n] (it ends with     *)
(* return code n), "timeout" (it outlives timeout_s: subprocess.run kills  *)
(* it and raises TimeoutExpired) or "notfound" (the executable cannot be   *)
(* started: FileNotFoundError).  What the child itself does to the         *)
(* filesystem is outside the model.                                        *)
(***************************************************************************)
ExecResult(ok, code, ds, fl) ==
    [kind |-> IF ok THEN "ok" ELSE "nonok", rule |-> "", error |-> "", dirs |-> ds,
     files |-> fl, spawned |-> 1, exit_code |-> code, target |-> <<>>]

Spawn(ds, fl, env) ==
    IF env.kind = "timeout" THEN OsError("TimeoutExpired", ds, fl, 1)
    ELSE IF env.kind = "notfound" THEN OsError("FileNotFoundError", ds, fl, 0)
    ELSE ExecResult(env.code = 0, env.code, ds, fl)

\* Validation in which an allow-listed executable skips the denylist.
RunValidateAllowWins(pol, command, cwd) ==
    LET lexed == shlex_split(command)
        parts == lexed.parts
    IN  IF ~lexed.ok THEN [kind |-> "error", rule |-> "", error |-> "ValueError"]
        ELSE IF parts = <<>> \/ parts[1] \notin pol.command_allowlist
        THEN [kind |-> "violation", rule |-> "command_allowlist", error |-> ""]
        ELSE [kind |-> "pass", rule |-> "", error |-> ""]

\* Validation that consults the denylist before the allowlist.
RunValidateDenyFirst(pol, command, cwd) ==
    LET lexed == shlex_split(command)
        parts == lexed.parts
    IN  IF ~lexed.ok THEN [kind |-> "error", rule |-> "", error |-> "ValueError"]
        ELSE IF parts # <<>> /\ parts[1] \in pol.command_denylist
        THEN [kind |-> "violation", rule |-> "command_denylist", error |-> ""]
        ELSE IF parts = <<>> \/ parts[1] \notin pol.command_allowlist
        THEN [kind |-> "violation", rule |-> "command_allowlist", error |-> ""]
        ELSE [kind |-> "pass", rule |-> "", error |-> ""]

\* The validation part of Executor.run (everything before subprocess.run):
\* "pass", or the PolicyViolation / ValueError it ends with.
run_validate(pol, command, cwd) ==
    LET lexed == shlex_split(command)
        parts == lexed.parts
        exe == parts[1]
        run_cwd == IF cwd = "" THEN Workspace ELSE Resolve(PathParts(cwd))
        Reject(rule) == [kind |-> "violation", rule |-> rule, error |-> ""]
    IN  IF ~lexed.ok THEN [kind |-> "error", rule |-> "", error |-> "ValueError"]
        ELSE IF parts = <<>> THEN Reject("command_allowlist")
        ELSE IF exe \notin pol.command_allowlist THEN Reject("command_allowlist")
        ELSE IF exe \in pol.command_denylist THEN Reject("command_denylist")
        ELSE IF _is_denied_path(pol, run_cwd) THEN Reject("denied_paths")
        ELSE IF ~_is_allowed_read(pol, run_cwd) THEN Reject("allowed_read_roots")
        ELSE LET rule == FirstRule(<<_enforce_destructive_patterns(pol, command),
                                     _enforce_rm_rules(pol, parts, run_cwd),
                                     _enforce_git_controls(pol, parts),
                                     _enforce_network_controls(pol, parts)>>)
             IN  IF rule # "" THEN Reject(rule)
                 ELSE [kind |-> "pass", rule |-> "", error |-> ""]

\* Executor.run once validation has ended with v.
run_finish(v, ds, fl, env) ==
    IF v.kind = "violation" THEN Violation(v.rule, ds, fl, 0)
    ELSE IF v.kind = "error" THEN OsError(v.error, ds, fl, 0)
    ELSE Spawn(ds, fl, env)

executor_run(pol, ds, fl, command, cwd, env) ==
    run_finish(run_validate(pol, command, cwd), ds, fl, env)

(***************************************************************************)
(* Policies, inputs and host behaviours the model explores.                *)
(***************************************************************************)
BasePolicy ==
    [allowed_write_roots |-> {"/w"}, allowed_read_roots |-> {}, denied_paths |-> {},
     command_allowlist |-> {"echo", "rm", "git", "curl"}, command_denylist |-> {},
     deny_patterns |-> {}, rm_deny_recursive |-> FALSE,
     rm_allow_recursive_only_under |-> {},
     git_deny_push |-> FALSE, git_deny_force |-> FALSE, git_deny_remote_add |-> FALSE,
     network_controls |-> EmptyDict, routing_controls |-> EmptyDict,
     execution_limits |->
         [max_file_write_bytes |-> 3, execution_mode |-> "single_step",
          max_actions_per_run |-> 1, max_steps_per_plan |-> 5]]

WritePolicies ==
    {[BasePolicy EXCEPT !.allowed_write_roots = a, !.denied_paths = d,
                        !.execution_limits.max_file_write_bytes = m] :
        a \in {{"/w"}, {"/w", "/d"}, {}},
        d \in {{}, {"/w/d"}},
        m \in {2, 3}}

CmdPolicies ==
    {[BasePolicy EXCEPT !.command_allowlist = a, !.command_denylist = d,
                        !.denied_paths = pr[1], !.allowed_read_roots = pr[2]] :
        a \in {{"echo", "rm"}, {"echo"}},
        d \in {{}, {"rm"}},
        pr \in {<<{}, {}>>, <<{"/w"}, {}>>, <<{}, {"/d"}>>}}

GuardPolicies ==
    {[BasePolicy EXCEPT !.deny_patterns = {"rm -rf /"}, !.rm_deny_recursive = TRUE],
     [BasePolicy EXCEPT !.rm_allow_recursive_only_under = {"/w/s"}],
     [BasePolicy EXCEPT !.git_deny_push = TRUE, !.git_deny_force = TRUE,
                        !.git_deny_remote_add = TRUE],
     [BasePolicy EXCEPT !.network_controls =
         [allow_outbound_http |-> TRUE, allow_domains |-> {"ok.ex"}]]}

\* A cross-section of the above for the specification that mixes both calls.
ExecPolicies ==
    {BasePolicy,
     [BasePolicy EXCEPT !.denied_paths = {"/w/d"},
                        !.execution_limits.max_file_write_bytes = 2],
     [BasePolicy EXCEPT !.allowed_write_roots = {"/w", "/d"}],
     [BasePolicy EXCEPT !.command_denylist = {"rm"}],
     [BasePolicy EXCEPT !.command_allowlist = {"echo"}, !.denied_paths = {"/w"}],
     [BasePolicy EXCEPT !.allowed_read_roots = {"/d"}]} \cup GuardPolicies

RelPaths == {"a", "d", "d/a", "a/b", "../d/a", "/a", ""}

CodePoints == {120, 233}

\* Short texts over CodePoints, one three-byte character and one lone surrogate.
Contents == SeqsUpTo(CodePoints, MaxContentLen) \cup {<<8364>>, <<55296>>}

CmdWords == {"rm", " ", "'"}

SampleCmds ==
    {"echo hi", "echo 'a  b'", "rm  -rf   /", "rm -rf s/x", "rm -r ../d", "git push",
     "git remote add o u", "git commit -f", "git status", "curl https://ok.ex/x",
     "curl http://u@B.ex:80/", "curl -s"}

CmdLines == ConcatsUpTo(CmdWords, MaxCmdWords) \cup SampleCmds

Cwds == {"", "/d"}

Envs == {[kind |-> "exit", code |-> 0], [kind |-> "exit", code |-> 1],
         [kind |-> "timeout", code |-> 0], [kind |-> "notfound", code |-> 0]}

NoFiles == [q \in {} |-> <<>>]

\* The workspace when the Executor is constructed: empty, or holding a regular
\* file /w/a and a directory /w/d.
InitialFs ==
    {[dirs |-> {Root, Workspace}, files |-> NoFiles],
     [dirs |-> {Root, Workspace, <<"w", "d">>},
      files |-> [q \in {<<"w", "a">>} |-> <<120, 120>>]]}

\* last before any call.  env is what the host did with the child process of the
\* call ("none" when no child was started), spawned the number of child
\* processes the call started.
NoCall ==
    [op |-> "none", arg |-> "", content |-> <<>>, cwd |-> "", env |-> "none",
     kind |-> "none", rule |-> "", error |-> "", exit_code |-> 0, target |-> <<>>,
     spawned |-> 0]

IdleRun == [pc |-> "idle"]

(***************************************************************************)
(* Direct calls of the Executor.                                           *)
(***************************************************************************)
InitWith(pols, fss) ==
    /\ policy \in pols
    /\ \E fs \in fss : dirs = fs.dirs /\ files = fs.files
    /\ spawned = 0
    /\ last = NoCall
    /\ ops = 0
    /\ run = IdleRun

Init == InitWith(ExecPolicies, InitialFs)

InitWrite == InitWith(WritePolicies, InitialFs)

InitCmd == InitWith(CmdPolicies \cup GuardPolicies, {[dirs |-> {Root, Workspace}, files |-> NoFiles]})

Record(op, arg, content, cwd, env, res) ==
    [op |-> op, arg |-> arg, content |-> content, cwd |-> cwd, env |-> env,
     kind |-> res.kind, rule |-> res.rule, error |-> res.error,
     exit_code |-> res.exit_code, target |-> res.target, spawned |-> res.spawned]

WriteFileCall ==
    /\ ops < MaxOps
    /\ \E rel_path \in RelPaths, content \in Contents :
          LET res == write_file(policy, dirs, files, rel_path, content)
          IN  /\ dirs' = res.dirs
              /\ files' = res.files
              /\ spawned' = spawned + res.spawned
              /\ last' = Record("write_file", rel_path, content, "", "none", res)
    /\ ops' = ops + 1
    /\ UNCHANGED <<policy, run>>

\* A call of Executor.run with a command of cmds and a cwd of cwds.
RunCallOver(cmds, cwds) ==
    /\ ops < MaxOps
    /\ \E command \in cmds, cwd \in cwds :
          LET v == run_validate(policy, command, cwd)
          IN  \E env \in IF v.kind = "pass" THEN Envs ELSE {CHOOSE e \in Envs : TRUE} :
                LET res == run_finish(v, dirs, files, env)
                IN  /\ dirs' = res.dirs
                    /\ files' = res.files
                    /\ spawned' = spawned + res.spawned
                    /\ last' = Record("run", command, <<>>, cwd,
                                        IF v.kind = "pass" THEN env.kind ELSE "none", res)
    /\ ops' = ops + 1
    /\ UNCHANGED <<policy, run>>

RunCall == RunCallOver(CmdLines, Cwds)

Next == WriteFileCall \/ RunCall

Spec == Init /\ [][Next]_vars

\* write_file alone, over the write-related policy fields.
NextWrite == WriteFileCall

SpecWrite == InitWrite /\ [][NextWrite]_vars

\* run alone, over the command-related policy fields.
NextCmd == RunCall

SpecCmd == InitCmd /\ [][NextCmd]_vars

(***************************************************************************)
(* Executor.run on rm, git, curl and wget command lines, over policies     *)
(* loaded from configuration documents that vary one guard section each.   *)
(***************************************************************************)
GuardBase == [BasePolicy EXCEPT !.command_allowlist = {"rm", "git", "curl", "wget"}]

\* Configuration documents: without a network_controls section, with an empty
\* one, with one lacking allow_outbound_http, and with complete ones.
NetworkDocs ==
    {EmptyDict,
     [network_controls |-> EmptyDict],
     [network_controls |-> [allow_domains |-> {"ok.ex"}]],
     [network_controls |-> [allow_outbound_http |-> FALSE, allow_domains |-> {"ok.ex"}]],
     [network_controls |-> [allow_outbound_http |-> TRUE]],
     [network_controls |-> [allow_outbound_http |-> TRUE, allow_domains |-> {"ok.ex"}]],
     [network_controls |->
         [allow_outbound_http |-> TRUE, allow_domains |-> {"ok.ex", "b.ex"}]]}

NetworkPolicies ==
    {[GuardBase EXCEPT !.network_controls = LoadSection(doc, "network_controls")] :
        doc \in NetworkDocs}

RmPolicies ==
    {[GuardBase EXCEPT !.rm_allow_recursive_only_under = roots,
                       !.rm_deny_recursive = deny] :
        roots \in {{}, {"/w/s"}, {"/w/s", "/d"}}, deny \in BOOLEAN}

GitPolicies ==
    {[GuardBase EXCEPT !.git_deny_push = dp, !.git_deny_force = df,
                       !.git_deny_remote_add = dr] :
        dp \in BOOLEAN, df \in BOOLEAN, dr \in BOOLEAN}

\* Policies under which a check that precedes the guards rejects the command.
EarlierCheckPolicies ==
    {[GuardBase EXCEPT !.command_denylist = {"curl"}],
     [GuardBase EXCEPT !.deny_patterns = {"curl -s", "rm -rf"},
                       !.rm_allow_recursive_only_under = {"/w/s"}],
     [GuardBase EXCEPT !.denied_paths = {"/d"},
                       !.rm_allow_recursive_only_under = {"/w/s", "/d"}]}

GuardCmds ==
    {"rm -rf s/x", "rm -r ../d", "rm -rf s/x /d", "rm -fr sx", "rm --recursive /w/s",
     "rm s/x ../d", "rm -rf", "rm -rf s/../x", "rm -R ../d",
     "git push", "git push -f", "git remote add o u", "git remote -v",
     "git commit -f", "git commit --force", "git status", "git",
     "git push --force-with-lease", "git push -uf",
     "curl https://ok.ex/x", "curl http://u@B.ex:80/", "curl -s",
     "wget https://ok.ex http://b.ex", "curl HTTP://bad.ex/", "wget https://OK.ex",
     "curl https://ok.ex@bad.ex/"}

InitGuard ==
    InitWith(NetworkPolicies \cup RmPolicies \cup GitPolicies \cup EarlierCheckPolicies,
             {[dirs |-> {Root, Workspace}, files |-> NoFiles]})

RunGuardCall == RunCallOver(GuardCmds, Cwds)

NextGuard == RunGuardCall

SpecGuard == InitGuard /\ [][NextGuard]_vars

\* Policies that switch each check of Executor.run on or off independently, so
\* that one command line can break several rules at once.
OrderPolicies ==
    {[BasePolicy EXCEPT !.command_allowlist = al, !.command_denylist = dl,
                        !.denied_paths = dp, !.allowed_read_roots = rr,
                        !.deny_patterns = pat, !.rm_deny_recursive = rm,
                        !.rm_allow_recursive_only_under = {"/w/s"},
                        !.git_deny_push = git[1], !.git_deny_remote_add = git[2],
                        !.git_deny_force = git[3], !.network_controls = net] :
        al \in {{"rm", "git", "curl"}, {"echo"}},
        dl \in {{}, {"rm", "git", "curl"}},
        dp \in {{}, {"/d"}},
        rr \in {{}, {"/w"}},
        pat \in {{}, {"rm -rf /d", "git push -f", "curl http://b.ex"}},
        rm \in BOOLEAN,
        git \in {<<FALSE, FALSE, FALSE>>, <<TRUE, TRUE, TRUE>>, <<FALSE, TRUE, TRUE>>},
        net \in {EmptyDict,
                 [allow_outbound_http |-> FALSE, allow_domains |-> {"ok.ex"}],
                 [allow_outbound_http |-> TRUE, allow_domains |-> {"ok.ex"}]}}

OrderCmds ==
    {"", "echo hi", "rm -rf /d", "git push -f", "git  push -f", "git remote add -f",
     "git push", "curl http://b.ex", "curl  http://b.ex"}

InitOrder == InitWith(OrderPolicies, {[dirs |-> {Root, Workspace}, files |-> NoFiles]})

RunOrderCall == RunCallOver(OrderCmds, Cwds)

NextOrder == RunOrderCall

SpecOrder == InitOrder /\ [][NextOrder]_vars

(***************************************************************************)
(* The plan-execution loop: run_once of core/cg/runtime/run_engine.py      *)
(* ("run_engine"), run_once of core/cg/runtime_run.py ("runtime_run") and  *)
(* _run_once of core/cg/main.py ("main").  A plan step is a record         *)
(* [type, value, path]; path "" stands for a missing path (None or "").    *)
(***************************************************************************)
Impls == {"main", "runtime_run", "run_engine"}

\* w in text
Contains(text, w) ==
    \E i \in 1..(Len(text) - Len(w) + 1) : SubSeq(text, i, i + Len(w) - 1) = w

WordChars == "abcdefghijklmnopqrstuvwxyzABCDEFGHIJKLMNOPQRSTUVWXYZ0123456789_"

IsWordChar(c) == \E i \in 1..Len(WordChars) : Char(WordChars, i) = c

\* Index of the first non-whitespace character of s from position i on.
RECURSIVE SkipWs(_, _)
SkipWs(s, i) ==
    IF i <= Len(s) /\ Char(s, i) \in Whitespace THEN SkipWs(s, i + 1) ELSE i

\* re.search(r"\bconfirm\s*[:=]\s*yes\b", text.lower())
_has_confirm_token(prompt) ==
    LET text == Lower(prompt)
    IN  \E i \in 1..Len(text) :
          /\ SubSeq(text, i, Min(Len(text), i + 6)) = "confirm"
          /\ (i = 1 \/ ~IsWordChar(Char(text, i - 1)))
          /\ LET j == SkipWs(text, i + 7)
                 k == SkipWs(text, j + 1)
             IN  /\ j <= Len(text)
                 /\ Char(text, j) \in {":", "="}
                 /\ SubSeq(text, k, Min(Len(text), k + 2)) = "yes"
                 /\ (k + 3 > Len(text) \/ ~IsWordChar(Char(text, k + 3)))

ApplyWords(impl) ==
    IF impl = "run_engine"
    THEN {"apply", "delete", "rename", "rewrite", "sanitize", "normalize", "move",
          "modify", "update"}
    ELSE {"apply", "rename", "rewrite", "sanitize", "normalize", "batch", "delete",
          "move", "modify", "update"}

_actionable_steps(plan) == SelectSeq(plan, LAMBDA st : st.type \in {"cmd", "write"})

\* A gate that never asks for confirmation.
ConfirmationNeverRequired(impl, prompt, steps) == FALSE

\* run_engine: _requires_confirmation(prompt, actionable); the other two:
\* _requires_apply_confirmation(prompt, selected) and not _has_confirm_token(prompt).
_requires_confirmation(impl, prompt, steps) ==
    /\ \E w \in ApplyWords(impl) : Contains(Lower(prompt), w)
    /\ \E i \in 1..Len(steps) : steps[i].type \in {"cmd", "write"}
    /\ ~_has_confirm_token(prompt)

\* The plan after the max_steps_per_plan truncation.
TruncatePlan(pol, plan) ==
    IF Len(plan) > max_steps_per_plan(pol)
    THEN PySliceTo(plan, max_steps_per_plan(pol)) ELSE plan

\* A selection that ignores the execution mode and the action cap.
SelectEverything(impl, pol, actionable) == actionable

\* The actionable steps the loop will iterate over.
SelectSteps(impl, pol, actionable) ==
    IF impl = "run_engine"
    THEN LET limit == IF execution_mode(pol) = "single_step" THEN 1
                      ELSE Min(max_actions_per_run(pol), Len(actionable))
         IN  PySliceTo(actionable, Max(1, limit))
    ELSE IF execution_mode(pol) = "single_step" THEN PySliceTo(actionable, 1)
    ELSE PySliceTo(actionable, Max(1, max_actions_per_run(pol)))

\* The rule of the PolicyViolation raised for a write step without a path.
MissingPathRule(impl) == IF impl = "run_engine" THEN "allowed_write_roots" ELSE ""

\* _execute_step: the Executor outcome of one step (kind "ok" is a True return,
\* "nonok" a False return, the others an exception leaving _execute_step).
_execute_step(impl, pol, ds, fl, step, env) ==
    IF step.type = "write"
    THEN IF step.path = "" THEN Violation(MissingPathRule(impl), ds, fl, 0)
         ELSE write_file(pol, ds, fl, step.path, step.value)
    ELSE IF step.type = "cmd"
    THEN executor_run(pol, ds, fl, step.value, "", env)
    ELSE [kind |-> "ok", rule |-> "", error |-> "", dirs |-> ds, files |-> fl,
          spawned |-> 0, exit_code |-> 0, target |-> <<>>]

\* A loop whose generic exception handler also takes the PolicyViolation.
OutcomeExceptionFirst(res) ==
    IF res.kind = "nonok" THEN "command_failed"
    ELSE IF res.kind \in {"violation", "error"} THEN "execution_error"
    ELSE ""

\* A loop that goes on after a failed command.
OutcomeIgnoresFailure(res) ==
    IF res.kind = "violation" THEN "policy_violation"
    ELSE IF res.kind = "error" THEN "execution_error"
    ELSE ""

\* The outcome with which the loop breaks after a step, "" when it goes on.
StepOutcome(res) ==
    IF res.kind = "nonok" THEN "command_failed"
    ELSE IF res.kind = "violation" THEN "policy_violation"
    ELSE IF res.kind = "error" THEN "execution_error"
    ELSE ""

\* The outcome passed to _finish when the loop ends with outcome o ("" when no
\* step stopped it).
Reported(o) == IF o = "" THEN "success" ELSE o

\* The event _finish hands to the telemetry log (duration and error text left
\* out; run_engine's event has no handler_id, "" here).
FinishEvent(r, outcome) ==
    [route_mode |-> r.route_mode, handler_id |-> r.handler_id, outcome |-> outcome,
     llm_used |-> r.llm_used, executed_steps |-> r.executed_steps]

\* Whether an exception of append_event leaves the logging call: _log_event
\* (main) and log_event (runtime_run) catch it, finish_event of
\* runtime/common.py (run_engine) calls append_event bare.
LogErrorPropagates(impl) == impl = "run_engine"

\* A _finish that logs nothing.
FinishSilently(r, outcome, writable) == [r EXCEPT !.pc = "done", !.reported = outcome]

\* _finish(outcome): one append_event call, which appends the event when the
\* log is writable and raises OSError otherwise.  emitted is the events handed
\* to append_event, logged the events in the log, raised the exception leaving
\* the request ("" for none).
_finish(r, outcome, writable) ==
    [r EXCEPT !.pc = "done",
              !.reported = outcome,
              !.emitted = Append(@, FinishEvent(r, outcome)),
              !.logged = IF writable THEN Append(@, FinishEvent(r, outcome)) ELSE @,
              !.raised = IF ~writable /\ LogErrorPropagates(r.impl) THEN "OSError" ELSE @]

NoteStep == [type |-> "note", value |-> "n", path |-> ""]

StepPool ==
    {NoteStep,
     [type |-> "cmd", value |-> "echo hi", path |-> ""],
     [type |-> "cmd", value |-> "rm x", path |-> ""],
     [type |-> "write", value |-> <<120>>, path |-> "d/a"],
     [type |-> "write", value |-> <<120>>, path |-> ""],
     [type |-> "write", value |-> <<120>>, path |-> "../d/a"]}

Plans == SeqsUpTo(StepPool, MaxPlanLen)

Prompts == {"ls", "Batch x", "move x confirm = YES"}

LoopPolicy(mode, actions, steps) ==
    [BasePolicy EXCEPT !.command_allowlist = {"echo"},
                       !.execution_limits.execution_mode = mode,
                       !.execution_limits.max_actions_per_run = actions,
                       !.execution_limits.max_steps_per_plan = steps]

\* Policy and prompt of a run: the execution limits vary under a plain prompt,
\* the prompt varies under one policy.
RunInputs ==
    {<<LoopPolicy("single_step", 1, 5), "ls">>,
     <<LoopPolicy("single_step", 3, 5), "ls">>,
     <<LoopPolicy("continue_until_done", 2, 5), "ls">>,
     <<LoopPolicy("continue_until_done", 0, 5), "ls">>,
     <<LoopPolicy("continue_until_done", -1, 2), "ls">>,
     <<LoopPolicy("continue_until_done", 5, 0 - 1), "ls">>,
     <<LoopPolicy("continue_until_done", 3, 5), "Batch x">>,
     <<LoopPolicy("continue_until_done", 3, 5), "move x confirm = YES">>}

NoEnv == [kind |-> "none", code |-> 0]

\* decision before decide_route was called (run_engine never calls it).
NoDecision == [mode |-> "none", handler_id |-> "None", confidence |-> 0, reason |-> ""]

\* The locals of a request after Policy.load: nothing routed, asked, executed
\* or logged.  handlers is the handler ids executed and tool the result of the
\* execution, asked how llm.ask ended ("replied" or "raised"), emitted the
\* events handed to append_event, logged the events in the log, raised the
\* exception that leaves the request ("" for none).
StartRun(impl, prompt, api_key) ==
    [pc |-> "route", impl |-> impl, prompt |-> prompt, api_key |-> api_key,
     decision |-> NoDecision, reply |-> <<>>, selected |-> <<>>,
     executed_steps |-> 0, outcome |-> "", reported |-> "", log |-> <<>>,
     route_mode |-> "llm", handler_id |-> "", llm_used |-> FALSE,
     handlers |-> <<>>, tool |-> [kind |-> "none"], llm_calls |-> 0,
     asked |-> "", emitted |-> <<>>, logged |-> <<>>, raised |-> ""]

\* The request at llm.ask, an API key being set.
AskingRun(impl, prompt) == [StartRun(impl, prompt, TRUE) EXCEPT !.pc = "ask"]

\* run before the planner has replied.
InitRun ==
    /\ \E inp \in RunInputs, impl \in Impls :
          /\ policy = inp[1]
          /\ run = AskingRun(impl, inp[2])
    /\ dirs = {Root, Workspace}
    /\ files = NoFiles
    /\ spawned = 0
    /\ last = NoCall
    /\ ops = 0

\* llm.ask returns a plan; run_once truncates it, filters the actionable steps,
\* applies the confirmation gate and selects the steps to execute.
PlanReply ==
    /\ run.pc = "ask"
    /\ \E plan \in Plans, writable \in BOOLEAN :
          LET truncated == TruncatePlan(policy, plan)
              actionable == _actionable_steps(truncated)
              selected == SelectSteps(run.impl, policy, actionable)
              gated == IF run.impl = "run_engine"
                       THEN _requires_confirmation(run.impl, run.prompt, actionable)
                       ELSE _requires_confirmation(run.impl, run.prompt, selected)
              early == IF actionable = <<>> THEN "no_actionable"
                       ELSE IF gated THEN "confirmation_required" ELSE ""
              asked == [run EXCEPT !.reply = plan, !.llm_used = TRUE,
                                   !.llm_calls = @ + 1, !.asked = "replied"]
          IN  run' = IF early = ""
                     THEN [asked EXCEPT !.selected = selected, !.pc = "loop"]
                     ELSE _finish(asked, early, writable)
    /\ UNCHANGED <<policy, dirs, files, spawned, last, ops>>

\* One iteration of "for i, step in enumerate(selected, 1)".
ExecuteStep ==
    /\ run.pc = "loop"
    /\ run.outcome = ""
    /\ run.executed_steps < Len(run.selected)
    /\ LET i == run.executed_steps + 1
           step == run.selected[i]
           spawns == /\ step.type = "cmd"
                     /\ run_validate(policy, step.value, "").kind = "pass"
       IN  \E env \in IF spawns THEN Envs ELSE {NoEnv} :
             LET res == _execute_step(run.impl, policy, dirs, files, step, env)
             IN  /\ dirs' = res.dirs
                 /\ files' = res.files
                 /\ spawned' = spawned + res.spawned
                 /\ last' = Record(IF step.type = "cmd" THEN "run" ELSE "write_file",
                                   IF step.type = "cmd" THEN step.value ELSE step.path,
                                   IF step.type = "cmd" THEN <<>> ELSE step.value,
                                   "", env.kind, res)
                 /\ run' = [run EXCEPT
                              !.executed_steps = i,
                              !.outcome = StepOutcome(res),
                              !.log = Append(@,
                                  [index |-> i, item |-> step, env |-> env,
                                   kind |-> res.kind, rule |-> res.rule,
                                   error |-> res.error, exit_code |-> res.exit_code,
                                   effect |-> \/ res.dirs # dirs
                                              \/ res.files # files
                                              \/ res.spawned # 0])]
    /\ UNCHANGED <<policy, ops>>

\* The loop has ended (break or exhaustion): _finish(outcome).
Finish ==
    /\ run.pc = "loop"
    /\ run.outcome # "" \/ run.executed_steps = Len(run.selected)
    /\ \E writable \in BOOLEAN : run' = _finish(run, Reported(run.outcome), writable)
    /\ UNCHANGED <<policy, dirs, files, spawned, last, ops>>

NextRun == PlanReply \/ ExecuteStep \/ Finish

SpecRun == InitRun /\ [][NextRun]_vars

(***************************************************************************)
(* Properties of the Executor.                                             *)
(***************************************************************************)
LastTarget == JoinResolve(Workspace, last.arg)

LastParts == shlex_split(last.arg).parts

UnderSome(p, roots) == \E r \in roots : IsPrefix(Resolve(PathParts(r)), p)

\* C1: a call of write_file or run that ends in a PolicyViolation has created
\* no directory, written no file and spawned no process.
C1_NoSideEffectOnViolation ==
    [][last'.kind = "violation" => UNCHANGED <<dirs, files, spawned>>]_vars

\* A write rejected by the last check (size) whose parent directory is missing.
C1_Witness ==
    /\ last.op = "write_file"
    /\ last.kind = "violation"
    /\ last.rule = "execution_limits.max_file_write_bytes"
    /\ Parent(LastTarget) \notin dirs

\* C2: a command whose executable is in both command_allowlist and
\* command_denylist is rejected with rule command_denylist and never executed.
C2_DenylistWins ==
    (/\ last.op = "run"
     /\ shlex_split(last.arg).ok
     /\ LastParts # <<>>
     /\ LastParts[1] \in policy.command_allowlist \cap policy.command_denylist)
    => (last.kind = "violation" /\ last.rule = "command_denylist" /\ last.env = "none")

C2_Witness ==
    /\ last.op = "run"
    /\ shlex_split(last.arg).ok
    /\ LastParts # <<>>
    /\ LastParts[1] \in policy.command_allowlist \cap policy.command_denylist
    /\ last.rule = "command_denylist"

\* C3: a command line whose first shell-split token is not in command_allowlist,
\* and an empty command line, are rejected with rule command_allowlist and
\* nothing is executed.
C3_AllowlistRequired ==
    (/\ last.op = "run"
     /\ shlex_split(last.arg).ok
     /\ (LastParts = <<>> \/ LastParts[1] \notin policy.command_allowlist))
    => (last.kind = "violation" /\ last.rule = "command_allowlist" /\ last.env = "none")

\* An executable that is deny-listed but not allow-listed.
C3_Witness ==
    /\ last.op = "run"
    /\ shlex_split(last.arg).ok
    /\ LastParts # <<>>
    /\ LastParts[1] \in policy.command_denylist \ policy.command_allowlist
    /\ last.rule = "command_allowlist"

\* C4: a permitted command that exceeds the timeout is reported by Executor.run
\* as a non-ok ExecResult.
C4_TimeoutIsNonOkResult ==
    (last.op = "run" /\ last.env = "timeout") => last.kind = "nonok"

\* C9: with an allowed, non-denied target, write_file rejects content whose
\* UTF-8 length exceeds max_file_write_bytes (writing nothing), does not reject
\* content at or below the limit, and a completed write leaves exactly the
\* UTF-8 bytes of the content in the target file.
C9_WriteSizeLimit ==
    [][(/\ last'.op = "write_file"
        /\ ops' # ops
        /\ Encodable(last'.content)
        /\ UnderSome(JoinResolve(Workspace, last'.arg), policy.allowed_write_roots)
        /\ ~UnderSome(JoinResolve(Workspace, last'.arg), policy.denied_paths))
       => IF Len(Utf8(last'.content)) > max_file_write_bytes(policy)
          THEN /\ last'.kind = "violation"
               /\ last'.rule = "execution_limits.max_file_write_bytes"
               /\ UNCHANGED <<dirs, files>>
          ELSE /\ last'.kind \in {"ok", "error"}
               /\ last'.kind = "error" =>
                     last'.error \in {"NotADirectoryError", "IsADirectoryError"}
               /\ last'.kind = "ok" =>
                     /\ last'.target = JoinResolve(Workspace, last'.arg)
                     /\ last'.target \in DOMAIN files'
                     /\ files'[last'.target] = Utf8(last'.content)]_vars

\* A multi-byte content exactly at the limit, written and read back.
C9_Witness ==
    /\ last.op = "write_file"
    /\ last.kind = "ok"
    /\ Len(Utf8(last.content)) = max_file_write_bytes(policy)
    /\ Len(last.content) < Len(Utf8(last.content))
    /\ files[last.target] = Utf8(last.content)

\* C10: write_file rejects a target under a denied_paths entry with rule
\* denied_paths (also under an allowed write root), rejects any other target
\* under no allowed_write_roots entry with rule allowed_write_roots, and leaves
\* the filesystem unchanged in both cases.
C10_WritePathRules ==
    [][(last'.op = "write_file" /\ ops' # ops)
       => /\ UnderSome(JoinResolve(Workspace, last'.arg), policy.denied_paths)
             => /\ last'.kind = "violation"
                /\ last'.rule = "denied_paths"
                /\ UNCHANGED <<dirs, files>>
          /\ (/\ ~UnderSome(JoinResolve(Workspace, last'.arg), policy.denied_paths)
              /\ ~UnderSome(JoinResolve(Workspace, last'.arg),
                            policy.allowed_write_roots))
             => /\ last'.kind = "violation"
                /\ last'.rule = "allowed_write_roots"
                /\ UNCHANGED <<dirs, files>>]_vars

\* A denied target that lies under an allowed write root.
C10_Witness ==
    /\ last.op = "write_file"
    /\ UnderSome(LastTarget, policy.denied_paths)
    /\ UnderSome(LastTarget, policy.allowed_write_roots)
    /\ last.rule = "denied_paths"

(***************************************************************************)
(* Properties of the rm, git and network guards of Executor.run.           *)
(***************************************************************************)
LastCwd == IF last.cwd = "" THEN Workspace ELSE Resolve(PathParts(last.cwd))

\* The last call was a run whose command passed every check that precedes the
\* rm, git and network guards.
LastReachesGuards ==
    /\ last.op = "run"
    /\ shlex_split(last.arg).ok
    /\ LastParts # <<>>
    /\ LastParts[1] \in policy.command_allowlist \ policy.command_denylist
    /\ ~UnderSome(LastCwd, policy.denied_paths)
    /\ policy.allowed_read_roots = {} \/ UnderSome(LastCwd, policy.allowed_read_roots)
    /\ \A pat \in policy.deny_patterns : NormalizeWs(pat) # NormalizeWs(last.arg)

\* The arguments of the last command that do not start with "-", resolved
\* against the cwd of the call.
LastRmTargets ==
    {JoinResolve(LastCwd, LastParts[i]) :
        i \in {j \in 2..Len(LastParts) : Char(LastParts[j], 1) # "-"}}

LastIsRecursiveRm ==
    /\ LastReachesGuards
    /\ LastParts[1] = "rm"
    /\ \E i \in 1..Len(LastParts) : LastParts[i] \in {"-r", "-rf", "-fr", "--recursive"}
    /\ ~policy.rm_deny_recursive
    /\ policy.rm_allow_recursive_only_under # {}

\* C11: with recursive delete not denied outright and a non-empty list of
\* allowed roots, an rm command with one of the flags -r, -rf, -fr, --recursive
\* is rejected with rule rm_rules.allow_recursive_only_under when some non-flag
\* argument resolves (against cwd) outside every root, and is not rejected
\* when every one resolves under a root.
C11_RecursiveRmOnlyUnderRoots ==
    LastIsRecursiveRm =>
        IF \E t \in LastRmTargets : ~UnderSome(t, policy.rm_allow_recursive_only_under)
        THEN /\ last.kind = "violation"
             /\ last.rule = "destructive_command_controls.rm_rules.allow_recursive_only_under"
             /\ last.env = "none"
        ELSE last.kind # "violation"

\* A recursive rm with one target under an allowed root and one outside.
C11_Witness ==
    /\ LastIsRecursiveRm
    /\ \E t \in LastRmTargets : UnderSome(t, policy.rm_allow_recursive_only_under)
    /\ \E t \in LastRmTargets : ~UnderSome(t, policy.rm_allow_recursive_only_under)
    /\ last.rule = "destructive_command_controls.rm_rules.allow_recursive_only_under"

\* An argument that is an http or https URL (the scheme of a URL is
\* case-insensitive).
IsHttpUrl(p) == StartsWith(Lower(p), "http://") \/ StartsWith(Lower(p), "https://")

LastUrlHosts ==
    {UrlHostname(LastParts[i]) : i \in {j \in 2..Len(LastParts) : IsHttpUrl(LastParts[j])}}

LastIsFetch == LastReachesGuards /\ LastParts[1] \in {"curl", "wget"}

\* C12: with outbound HTTP allowed and a non-empty allow_domains, a curl or
\* wget command is rejected with rule network_controls.allow_domains when the
\* hostname of some URL argument is not in allow_domains, and is not rejected
\* when the hostname of every URL argument is in it.
C12_DomainAllowlist ==
    (LastIsFetch /\ allow_outbound_http(policy) /\ allow_domains(policy) # {}) =>
        IF LastUrlHosts \subseteq allow_domains(policy)
        THEN last.kind # "violation"
        ELSE /\ last.kind = "violation"
             /\ last.rule = "network_controls.allow_domains"
             /\ last.env = "none"

LastIsFetchAttempt ==
    /\ last.op = "run"
    /\ shlex_split(last.arg).ok
    /\ LastParts # <<>>
    /\ LastParts[1] \in {"curl", "wget"} \cap policy.command_allowlist

\* The configuration does not turn outbound HTTP on.
HttpNotConfigured ==
    \/ "allow_outbound_http" \notin DOMAIN policy.network_controls
    \/ ~policy.network_controls["allow_outbound_http"]

\* C13: when the policy does not allow outbound HTTP (the key or the whole
\* network_controls section may be missing), every call of run for an
\* allow-listed curl or wget command raises a PolicyViolation and spawns no
\* process; the rule is network_controls.allow_outbound_http unless a check
\* that precedes the network check has already rejected the command.
C13_NetworkFailsClosed ==
    (LastIsFetchAttempt /\ HttpNotConfigured)
       => /\ last.kind = "violation"
          /\ last.spawned = 0
          /\ LastIsFetch => last.rule = "network_controls.allow_outbound_http"

\* A curl or wget command rejected under a policy loaded without the
\* allow_outbound_http key.
C13_Witness ==
    /\ LastIsFetch
    /\ "allow_outbound_http" \notin DOMAIN policy.network_controls
    /\ last.kind = "violation"
    /\ last.rule = "network_controls.allow_outbound_http"
    /\ last.spawned = 0

LastIsGit == LastReachesGuards /\ LastParts[1] = "git"

\* A git option that forces an operation: --force, the --force-* variants
\* (--force-with-lease, --force-if-includes) and a short-option cluster that
\* contains f (-f, -fd, -uf).
IsForcedOperationFlag(p) ==
    \/ p = "--force"
    \/ StartsWith(p, "--force-")
    \/ Len(p) > 1 /\ Char(p, 1) = "-" /\ Char(p, 2) # "-" /\ Contains(p, "f")

LastGitRejected ==
    last.kind = "violation" /\ StartsWith(last.rule, "git_controls.") /\ last.spawned = 0

\* C14: a git command line is rejected with a git_controls.* rule, and no
\* process is spawned, when deny_push is set and the subcommand is push, when
\* deny_remote_add is set and it is "remote add", and when deny_force is set
\* and a forced-operation flag is among its arguments.
C14_GitControls ==
    LastIsGit =>
        /\ (policy.git_deny_push /\ Len(LastParts) > 1 /\ LastParts[2] = "push")
              => LastGitRejected
        /\ (/\ policy.git_deny_remote_add
            /\ Len(LastParts) > 2
            /\ LastParts[2] = "remote"
            /\ LastParts[3] = "add")
              => LastGitRejected
        /\ (/\ policy.git_deny_force
            /\ \E i \in 2..Len(LastParts) : IsForcedOperationFlag(LastParts[i]))
              => LastGitRejected

(***************************************************************************)
(* Properties of the plan-execution loop.                                  *)
(***************************************************************************)
Attempted == [i \in 1..Len(run.log) |-> run.log[i].item]

LastEntry == run.log[Len(run.log)]

\* The loop was entered and has ended.
LoopEnded ==
    run.pc = "done" /\ run.reported \notin {"no_actionable", "confirmation_required"}

RaisedViolation == \E i \in 1..Len(run.log) : run.log[i].kind = "violation"

\* C5: a command that runs and exits with code n yields an ExecResult with that
\* exit code whose ok is true exactly when n = 0, and a non-zero exit ends the
\* run with outcome command_failed; the run outcome is policy_violation exactly
\* when a step raised a PolicyViolation, and that step had no side effect.
C5_FailureKindsDistinct ==
    /\ \A i \in 1..Len(run.log) :
          /\ run.log[i].env.kind = "exit" =>
                /\ run.log[i].exit_code = run.log[i].env.code
                /\ run.log[i].kind = IF run.log[i].env.code = 0 THEN "ok" ELSE "nonok"
          /\ run.log[i].kind = "violation" => ~run.log[i].effect
    /\ run.pc = "done" =>
          /\ (run.reported = "policy_violation") <=> RaisedViolation
          /\ (\E i \in 1..Len(run.log) : run.log[i].kind = "nonok")
                => run.reported = "command_failed"

\* A run stopped by a command that exited with code 1 after a step that succeeded.
C5_Witness ==
    /\ run.pc = "done"
    /\ run.reported = "command_failed"
    /\ Len(run.log) = 2
    /\ LastEntry.env = [kind |-> "exit", code |-> 1]
    /\ LastEntry.exit_code = 1

\* C6: every PolicyViolation raised for a plan step (by write_file, by run or
\* by the step dispatcher) carries a non-empty rule.
C6_EveryRejectionNamesRule ==
    \A i \in 1..Len(run.log) : run.log[i].kind = "violation" => run.log[i].rule # ""

\* C7 as stated: the attempted steps are a prefix of the plan's actionable
\* steps, at most one in single_step mode and at most max_actions_per_run in
\* continue_until_done mode (none when max_actions_per_run is below 1).
C7_AtMostMaxActions ==
    /\ IsPrefix(Attempted, _actionable_steps(run.reply))
    /\ execution_mode(policy) = "single_step" => Len(run.log) <= 1
    /\ execution_mode(policy) = "continue_until_done"
          => Len(run.log) <= Max(0, max_actions_per_run(policy))

\* C7 amended: the same with the cap max(1, max_actions_per_run) in
\* continue_until_done mode.
C7_AtMostClampedMaxActions ==
    /\ IsPrefix(Attempted, _actionable_steps(run.reply))
    /\ execution_mode(policy) = "single_step" => Len(run.log) <= 1
    /\ execution_mode(policy) = "continue_until_done"
          => Len(run.log) <= Max(1, max_actions_per_run(policy))

\* A completed continue_until_done run that attempted exactly the cap, with
\* more actionable steps in the plan.
C7_Witness ==
    /\ run.pc = "done"
    /\ run.reported = "success"
    /\ execution_mode(policy) = "continue_until_done"
    /\ Len(run.log) = Max(1, max_actions_per_run(policy))
    /\ Len(_actionable_steps(run.reply)) > Len(run.log)

\* The selected steps were attempted once each, in order, up to and including
\* the first one whose kind is in stops (all of them when there is none).
StopsAtFirst(stops) ==
    /\ Len(run.log) <= Len(run.selected)
    /\ \A i \in 1..Len(run.log) :
          run.log[i].index = i /\ run.log[i].item = run.selected[i]
    /\ \A i \in 1..(Len(run.log) - 1) : run.log[i].kind \notin stops
    /\ LoopEnded => (LastEntry.kind \in stops \/ Len(run.log) = Len(run.selected))

\* C8 as stated: the loop stops at the first step that returns a non-ok
\* ExecResult or raises a PolicyViolation, and only there.
C8_StopsAtFirstFailure == StopsAtFirst({"nonok", "violation"})

\* C8 amended: the loop stops at the first step that returns a non-ok
\* ExecResult, raises a PolicyViolation or raises any other exception.
C8_StopsAtFirstFailureOrError == StopsAtFirst({"nonok", "violation", "error"})

\* A run of three selected steps stopped at the second, whose command timed out.
C8_Witness ==
    /\ run.pc = "done"
    /\ run.reported = "execution_error"
    /\ Len(run.selected) = 3
    /\ Len(run.log) = 2
    /\ run.log[1].kind = "ok"
    /\ run.log[2].error = "TimeoutExpired"


(***************************************************************************)
(* Deterministic routing: decide_route of router.py and the routing        *)
(* accessors of Policy.  Scores, thresholds and confidences are counted in *)
(* thousandths (0.86 is 860).  Every sum the scorers can form is, as an    *)
(* IEEE double, its decimal value or one unit in the last place above it,  *)
(* and two such sums differ by 0, 0.05 or at least 0.1, so the comparisons *)
(* of decide_route on doubles agree with the comparisons on thousandths    *)
(* for every threshold that is a whole number of thousandths.              *)
(***************************************************************************)
None == "None"

RouteDecision(mode, handler_id, confidence, reason) ==
    [mode |-> mode, handler_id |-> handler_id, confidence |-> confidence,
     reason |-> reason]

\* self.routing_controls.get(key, default)
RoutingGet(pol, key, default) ==
    IF key \in DOMAIN pol.routing_controls THEN pol.routing_controls[key] ELSE default

RoutingAlwaysEnabled(pol) == TRUE

enable_deterministic_routing(pol) ==
    RoutingGet(pol, "enable_deterministic_routing", TRUE)

Digits == "0123456789"

IsDigits(s) == \A i \in 1..Len(s) : \E d \in 1..10 : Char(Digits, d) = Char(s, i)

RECURSIVE IntOfDigits(_)
IntOfDigits(s) ==
    IF s = "" THEN 0
    ELSE 10 * IntOfDigits(SubSeq(s, 1, Len(s) - 1))
         + (CHOOSE d \in 0..9 : Char(Digits, d + 1) = Char(s, Len(s)))

\* float(text) in thousandths, for an unsigned decimal text of at most three
\* decimals; any other text of the model is one float() rejects (ValueError).
FloatOfText(text) ==
    LET t == strip(text)
        dot == IF Contains(t, ".")
               THEN CHOOSE i \in 1..Len(t) :
                        Char(t, i) = "." /\ ~Contains(SubSeq(t, 1, i - 1), ".")
               ELSE Len(t) + 1
        whole == SubSeq(t, 1, dot - 1)
        frac == SubSeq(t, dot + 1, Len(t))
    IN  IF whole \o frac = "" \/ ~IsDigits(whole) \/ ~IsDigits(frac) \/ Len(frac) > 3
        THEN [ok |-> FALSE, f |-> 0]
        ELSE [ok |-> TRUE,
              f |-> 1000 * IntOfDigits(whole)
                    + IntOfDigits(frac \o SubSeq("000", 1, 3 - Len(frac)))]

\* float(v) of a configured value: <<"num", thousandths>>, <<"bool", b>>,
\* <<"str", text>> or <<"null">> (None, a TypeError).
FloatOf(v) ==
    IF v[1] = "num" THEN [ok |-> TRUE, f |-> v[2]]
    ELSE IF v[1] = "bool" THEN [ok |-> TRUE, f |-> IF v[2] THEN 1000 ELSE 0]
    ELSE IF v[1] = "str" THEN FloatOfText(v[2])
    ELSE [ok |-> FALSE, f |-> 0]

ThresholdUnclamped(pol) ==
    LET f == FloatOf(RoutingGet(pol, "deterministic_confidence_threshold", <<"num", 860>>))
    IN  IF ~f.ok THEN 860 ELSE f.f

deterministic_confidence_threshold(pol) ==
    LET f == FloatOf(RoutingGet(pol, "deterministic_confidence_threshold", <<"num", 860>>))
    IN  IF ~f.ok THEN 860 ELSE Max(0, Min(1000, f.f))

allowed_deterministic_handlers(pol) == RoutingGet(pol, "allowed_handlers", <<>>)

force_llm_patterns(pol) == RoutingGet(pol, "force_llm_patterns", <<>>)

\* (prompt or "").strip().lower()
NormalizePrompt(prompt) == Lower(strip(prompt))

_contains_any(text, items) == \E x \in items : Contains(text, x)

RECURSIVE JoinWith(_, _)
JoinWith(parts, sep) ==
    IF parts = <<>> THEN ""
    ELSE IF Len(parts) = 1 THEN parts[1]
    ELSE parts[1] \o sep \o JoinWith(Tail(parts), sep)

ScoredUncapped(hit, weak) ==
    LET points(i) == IF hit[i][1] THEN hit[i][2] ELSE 0
        total == IF Len(hit) = 3 THEN points(1) + points(2) + points(3)
                 ELSE points(1) + points(2)
    IN  <<total, weak>>

\* The result of a scorer whose three tests came out as hit (a sequence of
\* <<matched, points, reason>>): min(1.0, score), ", ".join(reasons) or weak.
Scored(hit, weak) ==
    LET points(i) == IF hit[i][1] THEN hit[i][2] ELSE 0
        total == IF Len(hit) = 3 THEN points(1) + points(2) + points(3)
                 ELSE points(1) + points(2)
        reasons == [i \in 1..Len(SelectSeq(hit, LAMBDA h : h[1])) |->
                       SelectSeq(hit, LAMBDA h : h[1])[i][3]]
    IN  <<Min(1000, total),
          IF reasons = <<>> THEN weak ELSE JoinWith(reasons, ", ")>>

ActionVerbs == {"list", "show", "print", "display"}

_score_workspace(text) ==
    Scored(<< <<_contains_any(text, {"workspace files", "workspace tree",
                                     "list files in workspace",
                                     "show workspace files", "show files",
                                     "list files"}),
                800, "workspace phrase">>,
              <<_contains_any(text, ActionVerbs \cup {"scan", "inventory"}),
                150, "action verb">>,
              <<Contains(text, "workspace"), 100, "workspace token">> >>,
           "weak workspace match")

_score_outputs(text) ==
    Scored(<< <<_contains_any(text, {"show outputs", "inspect outputs",
                                     "output folders", "reports logs artifacts"}),
                800, "outputs phrase">>,
              <<_contains_any(text, {"reports", "logs", "artifacts"}),
                150, "output token">>,
              <<_contains_any(text, ActionVerbs), 100, "action verb">> >>,
           "weak outputs match")

_score_structure(text) ==
    Scored(<< <<_contains_any(text, {"show structure", "solution structure",
                                     "project tree", "folder tree"}),
                800, "structure phrase">>,
              <<_contains_any(text, {"structure", "tree", "hierarchy"}),
                150, "structure token">>,
              <<_contains_any(text, ActionVerbs), 100, "action verb">> >>,
           "weak structure match")

_score_snaps(text) ==
    Scored(<< <<_contains_any(text, {"snapshot tests", "run snapshots",
                                     "ui snapshot", "screen snapshot"}),
                850, "snapshot phrase">>,
              <<_contains_any(text, {"run", "execute", "check", "validate"}),
                100, "action verb">> >>,
           "weak snapshot match")

\* re.search on the patterns of the model: literal characters and ".", with
\* an unterminated "[" or "(" as the patterns re.compile rejects.
re_error(pattern) ==
    \/ Contains(pattern, "[") /\ ~Contains(pattern, "]")
    \/ Contains(pattern, "(") /\ ~Contains(pattern, ")")

re_search(pattern, text) ==
    \E i \in 1..(Len(text) - Len(pattern) + 1) :
        \A k \in 1..Len(pattern) :
            IF Char(pattern, k) = "."
            THEN Char(text, i + k - 1) # "\n"
            ELSE Char(pattern, k) = Char(text, i + k - 1)

ForcedPatternNone(pol, text) == 0

\* The position in force_llm_patterns of the first pattern that compiles and
\* is found in text; 0 when the loop ends without one.
ForcedPattern(pol, text) ==
    LET patterns == force_llm_patterns(pol)
        hits == {i \in 1..Len(patterns) :
                    ~re_error(patterns[i]) /\ re_search(patterns[i], text)}
    IN  IF hits = {} THEN 0 ELSE CHOOSE i \in hits : \A j \in hits : i <= j

\* candidates as <<handler_id, score, reason>>, in the order of the scorers.
Candidates(text) ==
    << <<"inspect_workspace">> \o _score_workspace(text),
       <<"inspect_outputs">> \o _score_outputs(text),
       <<"inspect_structure">> \o _score_structure(text),
       <<"dev_snaps">> \o _score_snaps(text) >>

KeepAllCandidates(pol, candidates) == candidates

AllowedCandidates(pol, candidates) ==
    LET allowed == {allowed_deterministic_handlers(pol)[i] :
                        i \in 1..Len(allowed_deterministic_handlers(pol))}
    IN  IF allowed # {}
        THEN SelectSeq(candidates, LAMBDA c : c[1] \in allowed)
        ELSE candidates

SortAscending(candidates) ==
    LET n == Len(candidates)
        Rank(i) == 1 + Cardinality({j \in 1..n :
                          \/ candidates[j][2] < candidates[i][2]
                          \/ candidates[j][2] = candidates[i][2] /\ j < i})
    IN  [k \in 1..n |-> candidates[CHOOSE i \in 1..n : Rank(i) = k]]

\* candidates.sort(key=score, reverse=True): stable, highest score first.
SortCandidates(candidates) ==
    LET n == Len(candidates)
        Rank(i) == 1 + Cardinality({j \in 1..n :
                          \/ candidates[j][2] > candidates[i][2]
                          \/ candidates[j][2] = candidates[i][2] /\ j < i})
    IN  [k \in 1..n |-> candidates[CHOOSE i \in 1..n : Rank(i) = k]]

BelowOrAtThreshold(score, threshold) == score <= threshold

BelowThreshold(score, threshold) == score < threshold

AmbiguityMargin == 80

NeverAmbiguous(best_score, second_score) == FALSE

Ambiguous(best_score, second_score) == (best_score - second_score) < AmbiguityMargin

\* f"{x:.2f}" of x thousandths, for x in 0..1000 that does not end in 5.
Fmt2(x) ==
    LET h == (x + 5) \div 10
        d(n) == Char(Digits, n + 1)
    IN  d(h \div 100) \o "." \o d((h \div 10) % 10) \o d(h % 10)

decide_route(prompt, pol) ==
    IF ~enable_deterministic_routing(pol)
    THEN RouteDecision("llm", None, 0, "routing disabled by policy")
    ELSE
    LET text == NormalizePrompt(prompt) IN
    IF text = ""
    THEN RouteDecision("llm", None, 0, "empty prompt")
    ELSE
    LET hit == ForcedPattern(pol, text) IN
    IF hit # 0
    THEN RouteDecision("llm", None, 1000,
                       "force_llm pattern: " \o force_llm_patterns(pol)[hit])
    ELSE
    LET candidates == AllowedCandidates(pol, Candidates(text)) IN
    IF candidates = <<>>
    THEN RouteDecision("llm", None, 0, "no allowed deterministic handlers")
    ELSE
    LET sorted == SortCandidates(candidates)
        best == sorted[1]
        second_score == IF Len(sorted) > 1 THEN sorted[2][2] ELSE 0
        threshold == deterministic_confidence_threshold(pol)
    IN  IF BelowThreshold(best[2], threshold)
        THEN RouteDecision("llm", None, best[2],
                           "top score " \o Fmt2(best[2]) \o " below threshold "
                               \o Fmt2(threshold))
        ELSE IF Ambiguous(best[2], second_score)
        THEN RouteDecision("llm", None, best[2], "ambiguous candidates delta<0.08")
        ELSE RouteDecision("deterministic", best[1], best[2], best[3])

(***************************************************************************)
(* Routing configurations and requests the model explores.                 *)
(***************************************************************************)
OneKey(key, value) == [k \in {key} |-> value]

RoutingDocs ==
    {en @@ th @@ al @@ fp :
        en \in {EmptyDict, OneKey("enable_deterministic_routing", FALSE)},
        th \in {EmptyDict} \cup
               {OneKey("deterministic_confidence_threshold", t) :
                    t \in {<<"num", -100>>, <<"num", 0>>, <<"num", 950>>,
                           <<"num", 1500>>, <<"str", " 0.9">>, <<"null">>}},
        al \in {EmptyDict} \cup
               {OneKey("allowed_handlers", a) :
                    a \in {<<>>, <<"inspect_workspace">>,
                           <<"inspect_outputs", "dev_snaps">>, <<"deploy">>}},
        fp \in {EmptyDict} \cup
               {OneKey("force_llm_patterns", f) :
                    f \in {<<"[", "workspace">>, <<"Workspace">>, <<"">>,
                           <<"fil.s", "design">>}}}

RoutePolicies == {[BasePolicy EXCEPT !.routing_controls = d] : d \in RoutingDocs}

RoutePrompts ==
    {"", "   ", "show files", "Show Files", "  show files\n", "hello",
     "design a release strategy", "show workspace files", "show Workspace files",
     "run snapshot tests", "run snapshots", "ui snapshot",
     "show files project tree", "show files run snapshots", "show outputs",
     "inspect outputs", "reports logs artifacts", "show structure",
     "project tree", "print tree", "show logs", "list", "workspace"}

NoRoute ==
    [op |-> "none", prompt |-> "", mode |-> "none", handler_id |-> None,
     confidence |-> 0, reason |-> ""]

InitRoute ==
    /\ policy \in RoutePolicies
    /\ dirs = {Root, Workspace}
    /\ files = NoFiles
    /\ spawned = 0
    /\ last = NoRoute
    /\ ops = 0
    /\ run = IdleRun

\* decision = decide_route(prompt, policy)
DecideRouteCall ==
    /\ ops < MaxOps
    /\ \E prompt \in RoutePrompts :
          LET decision == decide_route(prompt, policy)
          IN  last' = [op |-> "decide_route", prompt |-> prompt,
                       mode |-> decision.mode, handler_id |-> decision.handler_id,
                       confidence |-> decision.confidence,
                       reason |-> decision.reason]
    /\ ops' = ops + 1
    /\ UNCHANGED <<policy, dirs, files, spawned, run>>

NextRoute == DecideRouteCall

SpecRoute == InitRoute /\ [][NextRoute]_vars


(***************************************************************************)
(* Properties of decide_route.                                             *)
(***************************************************************************)
Routed == last.op = "decide_route"

\* The configuration switches deterministic routing off.
RoutingDisabled ==
    /\ "enable_deterministic_routing" \in DOMAIN policy.routing_controls
    /\ ~policy.routing_controls["enable_deterministic_routing"]

\* Some force pattern of the policy compiles and is found in the normalized request.
LastForced ==
    \E i \in 1..Len(force_llm_patterns(policy)) :
        /\ ~re_error(force_llm_patterns(policy)[i])
        /\ re_search(force_llm_patterns(policy)[i], NormalizePrompt(last.prompt))

\* C15: when deterministic routing is disabled by the policy, or the request is
\* empty after trimming and lower-casing, decide_route answers mode llm with no
\* handler at once: the answer carries confidence 0.0 and the reason of the
\* early return, whatever the force patterns and the scorers would have said.
C15_DisabledOrEmptyIsLlm ==
    (Routed /\ (RoutingDisabled \/ NormalizePrompt(last.prompt) = "")) =>
        /\ last.mode = "llm"
        /\ last.handler_id = None
        /\ last.confidence = 0
        /\ last.reason = (IF RoutingDisabled THEN "routing disabled by policy"
                          ELSE "empty prompt")

\* Routing is disabled, the request scores 0.95 for the workspace handler and a
\* force pattern matches it; the answer is the one of the early return.
C15_Witness ==
    /\ Routed
    /\ RoutingDisabled
    /\ last.prompt = "show files"
    /\ LastForced
    /\ last.mode = "llm"
    /\ last.reason = "routing disabled by policy"


\* Some force pattern of the policy compiles and is found in the normalized
\* request when letter case is ignored (re.IGNORECASE on the patterns of the
\* model: the lower-cased pattern is found in the lower-cased text).
LastForcedIgnoringCase ==
    \E i \in 1..Len(force_llm_patterns(policy)) :
        /\ ~re_error(force_llm_patterns(policy)[i])
        /\ re_search(Lower(force_llm_patterns(policy)[i]),
                     NormalizePrompt(last.prompt))

\* C16: whenever routing is enabled, the request is not empty and a force
\* pattern matches the request text, letter case ignored, decide_route answers
\* mode llm with no handler and confidence 1.0, whatever the scorers say; a
\* pattern that is no valid regular expression is skipped.
C16_ForcePatternWins ==
    (/\ Routed
     /\ ~RoutingDisabled
     /\ NormalizePrompt(last.prompt) # ""
     /\ LastForcedIgnoringCase) =>
        /\ last.mode = "llm"
        /\ last.handler_id = None
        /\ last.confidence = 1000


LastText == NormalizePrompt(last.prompt)

LastAllowed ==
    {allowed_deterministic_handlers(policy)[i] :
        i \in 1..Len(allowed_deterministic_handlers(policy))}

\* The candidates of the request that the policy admits.
LastRemaining ==
    LET all == Candidates(LastText)
    IN  {c \in {all[1], all[2], all[3], all[4]} :
            LastAllowed = {} \/ c[1] \in LastAllowed}

\* The call got as far as ranking the candidates remaining.
RankedOver(remaining) ==
    /\ Routed
    /\ ~RoutingDisabled
    /\ remaining # {}
    /\ LastText # ""
    /\ ~LastForced

BestScore(remaining) ==
    CHOOSE x \in {c[2] : c \in remaining} : \A c \in remaining : c[2] <= x

\* C17: when the highest score among the remaining candidates is strictly below
\* the confidence threshold, decide_route answers mode llm with no handler (and
\* reports that score as the confidence); a highest score equal to the
\* threshold is not turned away as below the threshold.
C17_BelowThresholdIsLlm ==
    LET remaining == LastRemaining
        best == BestScore(remaining)
        threshold == deterministic_confidence_threshold(policy)
    IN  RankedOver(remaining) =>
            /\ (best < threshold) =>
                  /\ last.mode = "llm"
                  /\ last.handler_id = None
                  /\ last.confidence = best
                  /\ StartsWith(last.reason, "top score ")
            /\ (best >= threshold) => ~StartsWith(last.reason, "top score ")

\* "ui snapshot" scores 0.85 for dev_snaps, under the default threshold 0.86.
C17_Witness ==
    /\ RankedOver(LastRemaining)
    /\ last.prompt = "ui snapshot"
    /\ BestScore(LastRemaining) = 850
    /\ deterministic_confidence_threshold(policy) = 860
    /\ last.mode = "llm"
    /\ last.confidence = 850


\* The second highest score of the candidates remaining, 0.0 when there is one.
SecondScore(remaining) ==
    LET best == BestScore(remaining)
        top == {c \in remaining : c[2] = best}
    IN  IF Cardinality(remaining) = 1 THEN 0
        ELSE IF Cardinality(top) > 1 THEN best
        ELSE BestScore(remaining \ top)

\* C18: when the two highest scores of the remaining candidates differ by less
\* than 0.08 (the second being 0.0 when one candidate remains), decide_route
\* answers mode llm with no handler, also when the highest score clears the
\* threshold, and then for the reason of ambiguity.
C18_AmbiguousIsLlm ==
    LET remaining == LastRemaining
        best == BestScore(remaining)
    IN  (RankedOver(remaining) /\ best - SecondScore(remaining) < AmbiguityMargin) =>
            /\ last.mode = "llm"
            /\ last.handler_id = None
            /\ (best >= deterministic_confidence_threshold(policy)) =>
                  /\ last.reason = "ambiguous candidates delta<0.08"
                  /\ last.confidence = best

\* "show files project tree" scores 1.0 for inspect_structure and 0.95 for
\* inspect_workspace, both above the default threshold; the answer is llm.
C18_Witness ==
    /\ RankedOver(LastRemaining)
    /\ last.prompt = "show files project tree"
    /\ BestScore(LastRemaining) = 1000
    /\ SecondScore(LastRemaining) = 950
    /\ deterministic_confidence_threshold(policy) = 860
    /\ last.mode = "llm"
    /\ last.handler_id = None


\* C19: decide_route answers mode deterministic exactly when routing is
\* enabled, the normalized request is not empty, no force pattern is found in
\* it, and the highest score of the remaining candidates is at least the
\* threshold and at least 0.08 above the second; the handler is then the
\* candidate with that score and the confidence is the score.  With no routing
\* configuration, "show files" goes to inspect_workspace and "design a release
\* strategy" to llm.
C19_DeterministicExactlyWhen ==
    LET remaining == LastRemaining
        clear == /\ ~RoutingDisabled
                 /\ remaining # {}
                 /\ LastText # ""
                 /\ ~LastForced
                 /\ BestScore(remaining) >= deterministic_confidence_threshold(policy)
                 /\ BestScore(remaining) - SecondScore(remaining) >= AmbiguityMargin
    IN  Routed =>
            /\ last.mode = (IF clear THEN "deterministic" ELSE "llm")
            /\ clear =>
                  /\ \E c \in remaining :
                        c[2] = BestScore(remaining) /\ last.handler_id = c[1]
                  /\ last.confidence = BestScore(remaining)
            /\ ~clear => last.handler_id = None
            /\ (DOMAIN policy.routing_controls = {} /\ last.prompt = "show files") =>
                  last.mode = "deterministic" /\ last.handler_id = "inspect_workspace"
            /\ (DOMAIN policy.routing_controls = {}
                    /\ last.prompt = "design a release strategy") =>
                  last.mode = "llm"

\* With no routing configuration "show files" is routed to inspect_workspace
\* with confidence 0.95.
C19_Witness ==
    /\ Routed
    /\ DOMAIN policy.routing_controls = {}
    /\ last.prompt = "show files"
    /\ last.mode = "deterministic"
    /\ last.handler_id = "inspect_workspace"
    /\ last.confidence = 950


\* The call got as far as filtering the candidates by the allowed handlers.
LastFiltered ==
    /\ Routed
    /\ ~RoutingDisabled
    /\ LastText # ""
    /\ ~LastForced

\* C20: with a non-empty allowed_handlers the answer never names a handler
\* outside it; the candidates outside it are dropped before the ranking, so
\* the confidence is the highest score among the admitted candidates and the
\* ambiguity test compares it with the second highest among them; when no
\* candidate is admitted the answer is llm; an empty allowed_handlers admits
\* all four handlers.
C20_AllowedHandlersOnly ==
    LET remaining == LastRemaining
        all == Candidates(LastText)
        threshold == deterministic_confidence_threshold(policy)
    IN  /\ (Routed /\ LastAllowed # {}) => last.handler_id \in LastAllowed \cup {None}
        /\ (LastFiltered /\ remaining = {}) =>
              /\ LastAllowed # {}
              /\ last.mode = "llm"
              /\ last.handler_id = None
              /\ last.reason = "no allowed deterministic handlers"
        /\ (LastFiltered /\ remaining # {}) =>
              /\ last.confidence = BestScore(remaining)
              /\ (last.reason = "ambiguous candidates delta<0.08") <=>
                    /\ BestScore(remaining) >= threshold
                    /\ BestScore(remaining) - SecondScore(remaining) < AmbiguityMargin
        /\ (LastFiltered /\ LastAllowed = {}) =>
              last.confidence = BestScore({all[1], all[2], all[3], all[4]})

\* Only inspect_workspace is allowed; "show files project tree" scores 1.0 for
\* inspect_structure, which is dropped, and is routed to inspect_workspace (0.95).
C20_Witness ==
    /\ Routed
    /\ LastAllowed = {"inspect_workspace"}
    /\ last.prompt = "show files project tree"
    /\ Candidates(LastText)[3][2] = 1000
    /\ last.mode = "deterministic"
    /\ last.handler_id = "inspect_workspace"
    /\ last.confidence = 950


RegisteredHandlers ==
    {"inspect_workspace", "inspect_outputs", "inspect_structure", "dev_snaps"}

\* C30: every decision of decide_route is well formed: the mode is llm or
\* deterministic; llm comes with no handler; deterministic comes with one of
\* the four registered handlers and a confidence of at least the threshold;
\* the confidence lies in [0, 1].
C30_DecisionWellFormed ==
    Routed =>
        /\ last.mode \in {"llm", "deterministic"}
        /\ last.mode = "llm" => last.handler_id = None
        /\ last.mode = "deterministic" =>
              /\ last.handler_id \in RegisteredHandlers
              /\ last.confidence >= deterministic_confidence_threshold(policy)
        /\ last.confidence >= 0
        /\ last.confidence <= 1000

\* "show workspace files" earns 0.8 + 0.15 + 0.1 from _score_workspace, capped
\* at 1.0, and is routed to inspect_workspace with confidence 1.0.
C30_Witness ==
    /\ Routed
    /\ last.prompt = "show workspace files"
    /\ last.mode = "deterministic"
    /\ last.handler_id = "inspect_workspace"
    /\ last.confidence = 1000


(***************************************************************************)
(* The order of the checks of Executor.run.                                *)
(***************************************************************************)
\* Each check of Executor.run taken on its own, in the order the claim gives:
\* the rule it would raise for the last command, "" when it would not fail.
LastCheckRules ==
    LET parts == LastParts
        exe == IF parts = <<>> THEN "" ELSE parts[1]
        Is(failed, rule) == IF failed THEN rule ELSE ""
    IN  <<Is(parts = <<>> \/ exe \notin policy.command_allowlist, "command_allowlist"),
          Is(exe \in policy.command_denylist, "command_denylist"),
          Is(UnderSome(LastCwd, policy.denied_paths), "denied_paths"),
          Is(/\ policy.allowed_read_roots # {}
             /\ ~UnderSome(LastCwd, policy.allowed_read_roots), "allowed_read_roots"),
          Is(\E pat \in policy.deny_patterns : NormalizeWs(pat) = NormalizeWs(last.arg),
             "destructive_command_controls.deny_patterns"),
          _enforce_rm_rules(policy, parts, LastCwd),
          Is(/\ exe = "git" /\ policy.git_deny_push
             /\ Len(parts) > 1 /\ parts[2] = "push", "git_controls.deny_push"),
          Is(/\ exe = "git" /\ policy.git_deny_remote_add
             /\ Len(parts) > 2 /\ parts[2] = "remote" /\ parts[3] = "add",
             "git_controls.deny_remote_add"),
          Is(/\ exe = "git" /\ policy.git_deny_force
             /\ \E i \in 2..Len(parts) :
                    parts[i] = "--force" \/ StartsWith(parts[i], "-f"),
             "git_controls.deny_force"),
          Is(exe \in {"curl", "wget"} /\ ~allow_outbound_http(policy),
             "network_controls.allow_outbound_http"),
          Is(/\ exe \in {"curl", "wget"}
             /\ \E i \in 2..Len(parts) :
                    /\ StartsWith(parts[i], "http://") \/ StartsWith(parts[i], "https://")
                    /\ allow_domains(policy) # {}
                    /\ UrlHostname(parts[i]) \notin allow_domains(policy),
             "network_controls.allow_domains")>>

LastFailingChecks == {i \in 1..Len(LastCheckRules) : LastCheckRules[i] # ""}

\* C29: a run whose command line breaks one or more rules is rejected with the
\* rule of the earliest failing check in the order allowlist, denylist, denied
\* cwd, read roots, deny patterns, rm rules, git push, git remote add, git
\* force, outbound http, allowed domains, and starts no process; a command
\* line that breaks none is not rejected.
C29_EarliestRuleReported ==
    (last.op = "run" /\ shlex_split(last.arg).ok) =>
        LET failing == LastFailingChecks
        IN  IF failing = {} THEN last.kind # "violation"
            ELSE /\ last.kind = "violation"
                 /\ last.spawned = 0
                 /\ last.rule =
                      LastCheckRules[CHOOSE i \in failing : \A j \in failing : i <= j]

\* "git push -f" in a cwd outside the read roots breaks the read-root rule, a
\* deny pattern and the three git rules at once; the read-root rule is reported.
C29_Witness ==
    /\ last.op = "run"
    /\ last.arg = "git push -f"
    /\ LastFailingChecks = {4, 5, 7, 9}
    /\ last.kind = "violation"
    /\ last.rule = "allowed_read_roots"


(***************************************************************************)
(* Policy.load.  A configuration document is [parseable |-> FALSE] (text   *)
(* json.loads rejects) or [parseable |-> TRUE, data |-> d], d a function    *)
(* from the keys present to <<"null">> or <<"val", v>>.  Path entries are  *)
(* absolute, so expanduser leaves them alone.                              *)
(***************************************************************************)
RECURSIVE PathStr(_)
\* str() of an absolute path given by its components.
PathStr(parts) ==
    IF parts = <<>> THEN "/"
    ELSE IF Len(parts) = 1 THEN "/" \o parts[1]
    ELSE PathStr(SubSeq(parts, 1, Len(parts) - 1)) \o "/" \o parts[Len(parts)]

_expand_resolve(p) == PathStr(Resolve(PathParts(p)))

\* data.get(key) or default
DocGet(data, key, default) ==
    IF key \in DOMAIN data /\ data[key] # <<"null">> THEN data[key][2] ELSE default

\* section.get(key, default)
SectionGet(section, key, default) ==
    IF key \in DOMAIN section THEN section[key] ELSE default

LoadKeepsRoot(paths) == paths

\* denied_paths = [x for x in denied_paths if x != "/"]
DropRoot(paths) == {x \in paths : x # "/"}

LoadError == [kind |-> "error", error |-> "JSONDecodeError"]

\* The Policy built by Policy.load, with the fields the Executor reads through the accessors of
\* destructive_command_controls and git_controls taken at their defaults.
LoadParsed(data) ==
    LET destructive == DocGet(data, "destructive_command_controls", EmptyDict)
        rm_rules == SectionGet(destructive, "rm_rules", EmptyDict)
        git == DocGet(data, "git_controls", EmptyDict)
    IN  [kind |-> "ok",
         policy |->
           [allowed_write_roots |->
                {_expand_resolve(x) : x \in DocGet(data, "allowed_write_roots", {})},
            allowed_read_roots |->
                {_expand_resolve(x) : x \in DocGet(data, "allowed_read_roots", {})},
            denied_paths |->
                DropRoot({_expand_resolve(x) : x \in DocGet(data, "denied_paths", {})}),
            command_allowlist |-> DocGet(data, "command_allowlist", {}),
            command_denylist |-> DocGet(data, "command_denylist", {}),
            deny_patterns |-> SectionGet(destructive, "deny_patterns", {}),
            rm_deny_recursive |-> SectionGet(rm_rules, "deny_recursive", FALSE),
            rm_allow_recursive_only_under |->
                SectionGet(rm_rules, "allow_recursive_only_under", {}),
            git_deny_push |-> SectionGet(git, "deny_push", FALSE),
            git_deny_force |-> SectionGet(git, "deny_force", FALSE),
            git_deny_remote_add |-> SectionGet(git, "deny_remote_add", FALSE),
            network_controls |-> DocGet(data, "network_controls", EmptyDict),
            routing_controls |-> DocGet(data, "routing_controls", EmptyDict),
            execution_limits |-> DocGet(data, "execution_limits", EmptyDict)]]

Val(v) == <<"val", v>>

Null == <<"null">>

OptionalKeys ==
    {"allowed_write_roots", "allowed_read_roots", "denied_paths", "command_allowlist",
     "command_denylist", "destructive_command_controls", "git_controls",
     "network_controls", "routing_controls", "execution_limits"}

\* A load that insists on every section being present and not null.
LoadStrict(doc) ==
    IF ~doc.parseable THEN LoadError
    ELSE IF \E k \in OptionalKeys : k \notin DOMAIN doc.data \/ doc.data[k] = Null
    THEN [kind |-> "error", error |-> "KeyError"]
    ELSE LoadParsed(doc.data)

\* json.loads(p.read_text(...)) raises on text that is no JSON document;
\* otherwise the Policy is built from the parsed data.
load(doc) == IF ~doc.parseable THEN LoadError ELSE LoadParsed(doc.data)

\* A document a deployment would use, complete in every section.
FullData ==
    [allowed_write_roots |-> Val({"/w"}), allowed_read_roots |-> Val({"/w", "/d"}),
     denied_paths |-> Val({"/w/d"}),
     command_allowlist |-> Val({"echo", "rm", "git", "curl"}),
     command_denylist |-> Val({"git"}),
     destructive_command_controls |->
         Val([deny_patterns |-> {"rm -rf /"},
              rm_rules |-> [deny_recursive |-> TRUE,
                            allow_recursive_only_under |-> {"/w/s"}]]),
     git_controls |-> Val([deny_push |-> TRUE, deny_force |-> TRUE]),
     network_controls |-> Val([allow_outbound_http |-> TRUE, allow_domains |-> {"ok.ex"}]),
     routing_controls |-> Val([deterministic_confidence_threshold |-> <<"num", 900>>]),
     execution_limits |->
         Val([max_runtime_seconds |-> 5, max_file_write_bytes |-> 3,
              execution_mode |-> "continue_until_done"])]

Restrict(f, keys) == [k \in keys |-> f[k]]

\* The denied_paths lists of the documents, among them the root under its
\* several spellings.
DeniedLists ==
    {{"/"}, {"/", "/w/d"}, {"//"}, {"/w/.."}, {"/d/../.."}, {"/."}, {"/w/d/.."}, {"/d"}}

\* The execution_limits sections of the documents; execution_mode is held as
\* str() renders the configured value (None for null, 3 for 3).
LimitSections ==
    {[execution_mode |-> m] :
        m \in {"single_step", "continue_until_done", " continue_until_done\n",
               "Continue_Until_Done", "until_done", "", "None", "3"}}
    \cup {[max_runtime_seconds |-> 0], [max_runtime_seconds |-> 600],
          [max_file_write_bytes |-> 2, max_actions_per_run |-> 3]}

\* The routing_controls sections of the documents.
RoutingSections ==
    {[deterministic_confidence_threshold |-> t] :
        t \in {<<"num", -100>>, <<"num", 0>>, <<"num", 500>>, <<"num", 1000>>,
               <<"num", 1001>>, <<"num", 250000>>, <<"bool", TRUE>>, <<"null">>,
               <<"str", "high">>, <<"str", "">>, <<"str", "0.5">>, <<"str", " 2 ">>,
               <<"str", ".">>}}

LoadDocs ==
    {[parseable |-> FALSE]}
    \cup {[parseable |-> TRUE, data |-> Restrict(FullData, keys)] :
            keys \in {{}, OptionalKeys}
                     \cup {OptionalKeys \ {k} : k \in OptionalKeys}
                     \cup {{k} : k \in OptionalKeys}}
    \cup {[parseable |-> TRUE,
           data |-> [k \in OptionalKeys |-> IF k \in nulls THEN Null ELSE FullData[k]]] :
            nulls \in {OptionalKeys} \cup {{k} : k \in OptionalKeys}}
    \cup {[parseable |-> TRUE, data |-> [FullData EXCEPT !.denied_paths = Val(d)]] :
            d \in DeniedLists}
    \cup {[parseable |-> TRUE,
           data |-> [denied_paths |-> Val(d), allowed_write_roots |-> Val({"/w"}),
                     command_allowlist |-> Val({"echo"})]] :
            d \in DeniedLists}
    \cup {[parseable |-> TRUE, data |-> [FullData EXCEPT !.execution_limits = Val(e)]] :
            e \in LimitSections}
    \cup {[parseable |-> TRUE, data |-> [FullData EXCEPT !.routing_controls = Val(r)]] :
            r \in RoutingSections}

LoadCmds == {"echo hi", "rm -rf s/x", "curl https://ok.ex/x"}

\* Before Policy.load: no policy yet.
NoPolicy == [loaded |-> FALSE]

InitLoad ==
    /\ policy = NoPolicy
    /\ dirs = {Root, Workspace}
    /\ files = NoFiles
    /\ spawned = 0
    /\ last = NoCall
    /\ ops = 0
    /\ run = [pc |-> "start"]

\* policy = Policy.load(path): the policy of the request, or the exception
\* that ends it.
LoadCall ==
    /\ run.pc = "start"
    /\ \E doc \in LoadDocs :
          LET res == load(doc)
          IN  /\ run' = [pc |-> IF res.kind = "ok" THEN "loaded" ELSE "failed",
                         doc |-> doc, error |-> IF res.kind = "ok" THEN "" ELSE res.error]
              /\ policy' = IF res.kind = "ok" THEN res.policy ELSE NoPolicy
    /\ UNCHANGED <<dirs, files, spawned, last, ops>>

\* Calls of the Executor built on the loaded policy.
LoadedRunCall == run.pc = "loaded" /\ RunCallOver(LoadCmds, Cwds)

LoadedWriteFileCall == run.pc = "loaded" /\ WriteFileCall

NextLoad == LoadCall \/ LoadedRunCall \/ LoadedWriteFileCall

SpecLoad == InitLoad /\ [][NextLoad]_vars


(***************************************************************************)
(* Properties of Policy.load and of the accessors on a loaded Policy.      *)
(***************************************************************************)
Loaded == run.pc = "loaded"

\* The document leaves key out or sets it to null.
Unset(key) == key \notin DOMAIN run.doc.data \/ run.doc.data[key] = Null

DocLimits == DocGet(run.doc.data, "execution_limits", EmptyDict)

DocRouting == DocGet(run.doc.data, "routing_controls", EmptyDict)

Modes == {"single_step", "continue_until_done"}

\* The accessors on a loaded Policy, the mode being compared as given by
\* ModeOf: max_runtime_seconds is 60 when unset; execution_mode is single_step
\* when unset or when ModeOf(configured value) is neither mode, and that mode
\* otherwise; the threshold is 0.86 when unset or when float() rejects the
\* value, and the value clamped into [0, 1] otherwise, so always in [0, 1].
AccessorsBounded(ModeOf(_)) ==
    Loaded =>
        /\ "max_runtime_seconds" \notin DOMAIN DocLimits => max_runtime_seconds(policy) = 60
        /\ execution_mode(policy) \in Modes
        /\ execution_mode(policy) =
              (IF "execution_mode" \notin DOMAIN DocLimits THEN "single_step"
               ELSE IF ModeOf(DocLimits["execution_mode"]) \in Modes
               THEN ModeOf(DocLimits["execution_mode"])
               ELSE "single_step")
        /\ deterministic_confidence_threshold(policy) >= 0
        /\ deterministic_confidence_threshold(policy) <= 1000
        /\ deterministic_confidence_threshold(policy) =
              (IF "deterministic_confidence_threshold" \notin DOMAIN DocRouting THEN 860
               ELSE LET f == FloatOf(DocRouting["deterministic_confidence_threshold"])
                    IN  IF ~f.ok THEN 860
                        ELSE IF f.f < 0 THEN 0
                        ELSE IF f.f > 1000 THEN 1000
                        ELSE f.f)

AsConfigured(mode) == mode

\* C25 as stated: execution_mode is single_step for every configured value
\* other than single_step and continue_until_done (with the defaults and the
\* clamped threshold as above).
C25_AccessorDefaults == AccessorsBounded(AsConfigured)

\* C25 amended: execution_mode is single_step when the configured value,
\* rendered as a string and trimmed of surrounding whitespace, is neither
\* single_step nor continue_until_done; a value that is one of them once
\* trimmed selects that mode (with the defaults and the clamped threshold as
\* above).
C25_AccessorDefaultsTrimmed == AccessorsBounded(strip)

\* A loaded document configures execution_mode with surrounding whitespace and
\* the accessor gives continue_until_done; its threshold is the configured 0.9.
C25_Witness ==
    /\ Loaded
    /\ "execution_mode" \in DOMAIN DocLimits
    /\ DocLimits["execution_mode"] = " continue_until_done\n"
    /\ execution_mode(policy) = "continue_until_done"
    /\ max_runtime_seconds(policy) = 60
    /\ deterministic_confidence_threshold(policy) = 900


\* The denied_paths entries of the loaded document.
DocDenied == DocGet(run.doc.data, "denied_paths", {})

\* The path the last Executor call tested against denied_paths.
LastTested == IF last.op = "write_file" THEN LastTarget ELSE LastCwd

\* C26: the denied_paths of a loaded Policy never holds the filesystem root,
\* however the document spells it ("/", "//", "/w/..", ...), and a write
\* target or cwd is rejected with rule denied_paths only when it lies under an
\* entry of the document that is not the root.
C26_RootNeverDenied ==
    Loaded =>
        /\ "/" \notin policy.denied_paths
        /\ \A d \in policy.denied_paths : ResolveConfigured(d) # Root
        /\ (last.op \in {"write_file", "run"} /\ last.rule = "denied_paths") =>
              \E d \in DocDenied :
                  /\ ResolveConfigured(d) # Root
                  /\ IsPrefix(ResolveConfigured(d), LastTested)

\* The document lists "/w/.." and "/" resolves from it; the loaded Policy
\* denies nothing and a file was written under the workspace.
C26_Witness ==
    /\ Loaded
    /\ DocDenied = {"/w/.."}
    /\ policy.denied_paths = {}
    /\ last.op = "write_file"
    /\ last.kind = "ok"
    /\ last.target = <<"w", "a">>


(***************************************************************************)
(* Deterministic handlers: execute_tool of core/cg/routing/tool_registry.py *)
(* ("tool_registry") and _execute_deterministic_handler of core/cg/main.py  *)
(* ("main").  A callback behaviour says what a callback of the context does *)
(* when called: it returns, raises an Exception, or raises SystemExit with  *)
(* a code; a code is <<"none">>, <<"int", n>> or <<"str", s>>.              *)
(***************************************************************************)
Registries == {"tool_registry", "main"}

Returns == [kind |-> "returns"]

Raises(error) == [kind |-> "raises", error |-> error]

Exits(code) == [kind |-> "exits", code |-> code]

\* str(n) of an integer n.
RECURSIVE NatStr(_)
NatStr(n) ==
    IF n < 10 THEN Char(Digits, n + 1) ELSE NatStr(n \div 10) \o Char(Digits, (n % 10) + 1)

IntStr(n) == IF n < 0 THEN "-" \o NatStr(0 - n) ELSE NatStr(n)

\* int(text) of a str: surrounding whitespace and one sign are accepted, then
\* decimal digits; anything else raises ValueError.
IntOfText(text) ==
    LET t == strip(text)
        signed == t # "" /\ Char(t, 1) \in {"+", "-"}
        body == IF signed THEN SubSeq(t, 2, Len(t)) ELSE t
    IN  IF body = "" \/ ~IsDigits(body) THEN [ok |-> FALSE, error |-> "ValueError"]
        ELSE [ok |-> TRUE,
              n |-> IF signed /\ Char(t, 1) = "-" THEN 0 - IntOfDigits(body)
                    ELSE IntOfDigits(body)]

\* int(getattr(e, "code", 1) or 1): a falsy code (None, 0, "") counts as 1.
ExitCodeInt(code) ==
    IF code[1] = "none" THEN [ok |-> TRUE, n |-> 1]
    ELSE IF code[1] = "int" THEN [ok |-> TRUE, n |-> IF code[2] = 0 THEN 1 ELSE code[2]]
    ELSE IF code[2] = "" THEN [ok |-> TRUE, n |-> 1]
    ELSE IntOfText(code[2])

ToolReturn(ok, detail) == [kind |-> "return", ok |-> ok, detail |-> detail]

ToolRaise(error) == [kind |-> "raise", error |-> error]

\* The two except clauses, for the behaviour b that left the try block.  An
\* exception raised inside "except SystemExit" leaves the function.
ToolCatch(b) ==
    IF b.kind = "exits"
    THEN LET code == ExitCodeInt(b.code)
         IN  IF ~code.ok THEN ToolRaise(code.error)
             ELSE ToolReturn(code.n = 0, "handler exited with code " \o IntStr(code.n))
    ELSE ToolReturn(FALSE, b.error)

\* The inspect handlers: the callback each calls and its success detail.
InspectHandlers ==
    [inspect_workspace |-> [callback |-> "workspace_once",
                            detail |-> "executed inspect workspace"],
     inspect_outputs |-> [callback |-> "outputs_once",
                          detail |-> "executed inspect outputs"],
     inspect_structure |-> [callback |-> "structure_once",
                            detail |-> "executed inspect structure"]]

\* ctx.snapshot_runner when no runner was given (None).
NoRunner == [kind |-> "none"]

\* "if ctx.snapshot_runner is None" of tool_registry; main calls its own
\* _run_snapshot_tests, which is never None, and has no such test.
RunnerUnavailable(registry, ctx) ==
    registry = "tool_registry" /\ ctx.snapshot_runner = NoRunner

\* execute_tool(handler_id, prompt, ctx).  calls is the number of handler
\* callbacks it invoked.
execute_tool(registry, handler_id, ctx) ==
    IF handler_id \in DOMAIN InspectHandlers
    THEN LET h == InspectHandlers[handler_id]
             b == ctx[h.callback]
         IN  IF ctx.extract_depth.kind # "returns"
             THEN ToolCatch(ctx.extract_depth) @@ [calls |-> 0]
             ELSE IF b.kind # "returns" THEN ToolCatch(b) @@ [calls |-> 1]
             ELSE ToolReturn(TRUE, h.detail) @@ [calls |-> 1]
    ELSE IF handler_id = "dev_snaps"
    THEN IF RunnerUnavailable(registry, ctx)
         THEN ToolReturn(FALSE, "snapshot runner unavailable") @@ [calls |-> 0]
         ELSE IF ctx.snapshot_runner.kind # "returns"
         THEN ToolCatch(ctx.snapshot_runner) @@ [calls |-> 1]
         ELSE ToolReturn(TRUE, "executed dev snaps") @@ [calls |-> 1]
    ELSE ToolReturn(FALSE, "unknown handler: " \o handler_id) @@ [calls |-> 0]

HandlerIds ==
    {"inspect_workspace", "inspect_outputs", "inspect_structure", "dev_snaps",
     "deploy", ""}

ExitCodes ==
    {<<"none">>, <<"int", 0>>, <<"int", 2>>, <<"str", "">>, <<"str", "0">>,
     <<"str", " 3">>, <<"str", "msg">>}

CallbackBehaviours ==
    {Returns, Raises("RuntimeError")} \cup {Exits(code) : code \in ExitCodes}

DepthBehaviours == {Returns, Raises("ValueError"), Exits(<<"str", "bye">>)}

\* A context whose callbacks all behave as b.
Context(depth, b, runner) ==
    [workspace_once |-> b, outputs_once |-> b, structure_once |-> b,
     extract_depth |-> depth, snapshot_runner |-> runner]

Contexts ==
    {Context(depth, b, runner) :
        depth \in DepthBehaviours, b \in CallbackBehaviours,
        runner \in {NoRunner} \cup CallbackBehaviours}

InitTool ==
    /\ policy = BasePolicy
    /\ dirs = {Root, Workspace}
    /\ files = NoFiles
    /\ spawned = 0
    /\ last = [op |-> "none"]
    /\ ops = 0
    /\ run = IdleRun

ExecuteToolCall ==
    /\ ops < MaxOps
    /\ \E registry \in Registries, handler_id \in HandlerIds, ctx \in Contexts :
          /\ registry = "main" => ctx.snapshot_runner # NoRunner
          /\ last' = [op |-> "execute_tool", registry |-> registry,
                   handler_id |-> handler_id, ctx |-> ctx,
                   res |-> execute_tool(registry, handler_id, ctx)]
    /\ ops' = ops + 1
    /\ UNCHANGED <<policy, dirs, files, spawned, run>>

NextTool == ExecuteToolCall

SpecTool == InitTool /\ [][NextTool]_vars


(***************************************************************************)
(* A run request from Policy.load to its end: _run_once of core/cg/main.py, *)
(* run_once of core/cg/runtime_run.py and of core/cg/runtime/run_engine.py. *)
(* The callbacks behave as the repository's do: they return, raise an       *)
(* Exception or raise SystemExit with an int code.  What a handler writes   *)
(* on its own (the snapshot report) is not part of the state.               *)
(***************************************************************************)
\* The registry through which impl executes a handler.
Registry(impl) == IF impl = "main" THEN "main" ELSE "tool_registry"

\* An orchestrator that never takes the deterministic branch.
NeverDeterministicRoute(decision) == FALSE

\* if decision.mode == "deterministic" and decision.handler_id:
TakesDeterministicRoute(decision) ==
    decision.mode = "deterministic" /\ decision.handler_id \notin {None, ""}

\* Whether impl calls decide_route at all (run_engine is llm-only).
Routes(impl) == impl # "run_engine"

\* The decision the request takes its branch on.
Decide(impl, prompt, pol) ==
    IF Routes(impl) THEN decide_route(prompt, pol) ELSE NoDecision

HandlerBehaviours == {Returns, Raises("RuntimeError"), Exits(<<"int", 1>>)}

\* runtime_run is given its snapshot runner by the caller (None by default),
\* main calls its own.
RequestContexts(impl) ==
    {Context(Returns, b, runner) :
        b \in HandlerBehaviours,
        runner \in IF impl = "main" THEN HandlerBehaviours
                   ELSE {NoRunner} \cup HandlerBehaviours}

RoutingOff == [BasePolicy EXCEPT !.routing_controls =
                                    OneKey("enable_deterministic_routing", FALSE)]

RequestPolicy == LoopPolicy("continue_until_done", 2, 5)

RequestInputs ==
    {<<RequestPolicy, "show workspace files">>,
     <<RequestPolicy, "run snapshot tests">>,
     <<RoutingOff, "show workspace files">>,
     <<RequestPolicy, "ls">>,
     <<RequestPolicy, "update x">>,
     <<LoopPolicy("continue_until_done", 2, 1), "update x">>,
     <<RequestPolicy, "delete x confirm:yes">>}

InitRequest ==
    /\ \E inp \in RequestInputs, impl \in Impls, api_key \in BOOLEAN :
          /\ policy = inp[1]
          /\ run = StartRun(impl, inp[2], api_key)
    /\ dirs = {Root, Workspace}
    /\ files = NoFiles
    /\ spawned = 0
    /\ last = NoCall
    /\ ops = 0

\* The deterministic branch: the handler is executed, the event is logged and
\* the request ends, with SystemExit(1) when the handler failed.
DeterministicRoute ==
    /\ run.pc = "route"
    /\ LET decision == Decide(run.impl, run.prompt, policy)
       IN  /\ TakesDeterministicRoute(decision)
           /\ \E ctx \in RequestContexts(run.impl), writable \in BOOLEAN :
                LET res == execute_tool(Registry(run.impl), decision.handler_id, ctx)
                    routed == [run EXCEPT !.decision = decision,
                                          !.route_mode = "deterministic",
                                          !.handler_id = decision.handler_id,
                                          !.handlers = Append(@, decision.handler_id),
                                          !.tool = res]
                IN  run' = IF res.kind = "raise"
                           THEN [routed EXCEPT !.pc = "done", !.raised = res.error]
                           ELSE IF ~res.ok
                           THEN [_finish(routed, "handler_failed", writable)
                                    EXCEPT !.raised = "SystemExit"]
                           ELSE _finish(routed, "success", writable)
    /\ UNCHANGED <<policy, dirs, files, spawned, last, ops>>

\* No deterministic branch and no API key: "if not api_key".
LlmRequired ==
    /\ run.pc = "route"
    /\ LET decision == Decide(run.impl, run.prompt, policy)
       IN  /\ ~TakesDeterministicRoute(decision)
           /\ ~run.api_key
           /\ \E writable \in BOOLEAN :
                run' = _finish([run EXCEPT !.decision = decision], "llm_required",
                               writable)
    /\ UNCHANGED <<policy, dirs, files, spawned, last, ops>>

\* No deterministic branch and an API key: the request goes on to llm.ask.
LlmRoute ==
    /\ run.pc = "route"
    /\ LET decision == Decide(run.impl, run.prompt, policy)
       IN  /\ ~TakesDeterministicRoute(decision)
           /\ run.api_key
           /\ run' = [run EXCEPT !.decision = decision, !.pc = "ask"]
    /\ UNCHANGED <<policy, dirs, files, spawned, last, ops>>

\* llm.ask raises: "except Exception" logs llm_error and returns.
LlmError ==
    /\ run.pc = "ask"
    /\ \E writable \in BOOLEAN :
          run' = _finish([run EXCEPT !.llm_used = TRUE, !.llm_calls = @ + 1,
                                     !.asked = "raised"],
                         "llm_error", writable)
    /\ UNCHANGED <<policy, dirs, files, spawned, last, ops>>

NextRequest ==
    \/ DeterministicRoute
    \/ LlmRequired
    \/ LlmRoute
    \/ LlmError
    \/ PlanReply
    \/ ExecuteStep
    \/ Finish

SpecRequest == InitRequest /\ [][NextRequest]_vars


(***************************************************************************)
(* Properties of the deterministic handlers.                               *)
(***************************************************************************)
ToolCalled == last.op = "execute_tool"

\* The callbacks the last call reaches, in call order.
LastCallbacks ==
    IF last.handler_id \in DOMAIN InspectHandlers
    THEN <<last.ctx.extract_depth, last.ctx[InspectHandlers[last.handler_id].callback]>>
    ELSE IF last.handler_id = "dev_snaps" /\ last.ctx.snapshot_runner # NoRunner
    THEN <<last.ctx.snapshot_runner>>
    ELSE <<>>

\* A callback of the last call raised (an Exception or SystemExit).
LastCallbackRaised ==
    \E i \in 1..Len(LastCallbacks) :
        /\ LastCallbacks[i].kind # "returns"
        /\ \A j \in 1..(i - 1) : LastCallbacks[j].kind = "returns"

LastUnknownHandler == last.handler_id \notin DOMAIN InspectHandlers \cup {"dev_snaps"}

LastRunnerMissing == last.handler_id = "dev_snaps" /\ last.ctx.snapshot_runner = NoRunner

\* C21: every execution of a deterministic handler returns a (success, detail)
\* pair and lets no exception out; an unknown handler id, a missing snapshot
\* runner, an exception raised by a callback and a SystemExit raised by a
\* callback all give success = false.
C21_HandlerNeverRaises ==
    ToolCalled =>
        /\ last.res.kind = "return"
        /\ (LastUnknownHandler \/ LastRunnerMissing \/ LastCallbackRaised) => ~last.res.ok


(***************************************************************************)
(* Properties of a run request.                                            *)
(***************************************************************************)
RequestEnded == run.pc = "done"

\* The append of the request's event failed.
LogFailed == RequestEnded /\ run.logged # run.emitted

\* The exception with which a request of the given outcome ends when the
\* event is logged: SystemExit(1) after a failed handler, none otherwise.
EndsWith(outcome) == IF outcome = "handler_failed" THEN "SystemExit" ELSE ""

\* C22: a failure while appending the telemetry event does not fail the
\* request: on every exit path the request ends as it does when the event is
\* logged, with no exception from the logging.
C22_TelemetryFireAndForget == LogFailed => run.raised = EndsWith(run.reported)


\* The outcome the path of an ended request stands for.
PathOutcome ==
    IF run.handlers # <<>> THEN IF run.tool.ok THEN "success" ELSE "handler_failed"
    ELSE IF run.asked = "" THEN "llm_required"
    ELSE IF run.asked = "raised" THEN "llm_error"
    ELSE IF _actionable_steps(TruncatePlan(policy, run.reply)) = <<>> THEN "no_actionable"
    ELSE IF run.log = <<>> THEN "confirmation_required"
    ELSE IF LastEntry.kind = "nonok" THEN "command_failed"
    ELSE IF LastEntry.kind = "violation" THEN "policy_violation"
    ELSE IF LastEntry.kind = "error" THEN "execution_error"
    ELSE "success"

\* C23: a run request hands exactly one event to the telemetry log, on
\* whichever path it ends; the event is handed over when the request ends,
\* after the last step attempt, and carries the final outcome and the number
\* of steps attempted.
C23_OneEventPerRequest ==
    /\ run.emitted # <<>> => RequestEnded
    /\ RequestEnded =>
          /\ Len(run.emitted) = 1
          /\ run.emitted[1].outcome = PathOutcome
          /\ run.emitted[1].executed_steps = Len(run.log)

C23_Witness ==
    /\ RequestEnded
    /\ Len(run.log) = 2
    /\ run.emitted = <<[route_mode |-> "llm", handler_id |-> "",
                        outcome |-> "policy_violation", llm_used |-> TRUE,
                        executed_steps |-> 2]>>


\* The prompt holds one of the apply words every orchestrator knows.
ApplyIntent == \E w \in {"rename", "delete", "apply", "update"} : Contains(Lower(run.prompt), w)

\* The model replied with the plan and the gate's three conditions hold for it.
GateApplies(plan) ==
    /\ run.asked = "replied"
    /\ ApplyIntent
    /\ _actionable_steps(plan) # <<>>
    /\ ~_has_confirm_token(run.prompt)

\* The request ended at the gate, before any step was attempted.
StoppedAtGate ==
    /\ RequestEnded
    /\ run.reported = "confirmation_required"
    /\ run.executed_steps = 0
    /\ run.log = <<>>
    /\ last = NoCall
    /\ spawned = 0
    /\ files = NoFiles

\* C27: when the prompt holds an apply word and no confirm:yes token and the
\* plan the model returned holds a cmd or write step, no step is executed and
\* the run ends with outcome confirmation_required, the Executor not having
\* been called.
C27_ConfirmationGate == GateApplies(run.reply) => StoppedAtGate

\* C27 as the code has it: the plan is the one left after the truncation to
\* max_steps_per_plan.
C27_ConfirmationGateTruncated == GateApplies(TruncatePlan(policy, run.reply)) => StoppedAtGate

C27_Witness ==
    /\ GateApplies(TruncatePlan(policy, run.reply))
    /\ StoppedAtGate
    /\ Len(_actionable_steps(run.reply)) = 2
    /\ run.impl = "main"


\* The Router decided deterministic with a handler id.
DecidedDeterministic ==
    run.decision.mode = "deterministic" /\ run.decision.handler_id \in RegisteredHandlers

\* The Executor was never called and nothing it does has happened.
ExecutorUntouched ==
    run.log = <<>> /\ run.executed_steps = 0 /\ last = NoCall /\ spawned = 0
        /\ files = NoFiles

\* C28: a request the Router decides deterministic with a handler id executes
\* that handler once and calls neither the language model nor the Executor;
\* the model is asked and steps are given to the Executor only under an llm
\* decision, no handler having run, and the steps given are actionable steps
\* of the model's plan.
C28_DeterministicSkipsModel ==
    /\ DecidedDeterministic =>
          /\ RequestEnded
          /\ run.handlers = <<run.decision.handler_id>>
          /\ run.llm_calls = 0 /\ run.asked = "" /\ ~run.llm_used
          /\ ExecutorUntouched
    /\ Routes(run.impl) /\ (run.llm_calls > 0 \/ ~ExecutorUntouched) =>
          /\ run.decision.mode = "llm"
          /\ run.handlers = <<>>
          /\ run.llm_calls = 1
          /\ \A i \in 1..Len(run.log) :
                /\ run.log[i].item.type \in {"cmd", "write"}
                /\ \E j \in 1..Len(run.reply) : run.reply[j] = run.log[i].item

C28_Witness ==
    /\ DecidedDeterministic
    /\ run.impl = "runtime_run"
    /\ run.handlers = <<"dev_snaps">>
    /\ run.reported = "handler_failed"
    /\ run.raised = "SystemExit"

====
